---- MODULE Spec2Model ----
(***************************************************************************)
(* Configuration resolution and command-line scrubbing of the process      *)
(* agent (package config).  Go strings are modelled as sequences of        *)
(* one-character strings, so that splitting, joining, case folding and     *)
(* regular-expression matching are computed character by character.        *)
(***************************************************************************)
EXTENDS Integers, Sequences, FiniteSets, TLC

VARIABLES pc, agentIni, agentYaml, env, cfg, scrubber, err, adds, cmdline, result,
          added, ret

vars == <<pc, agentIni, agentYaml, env, cfg, scrubber, err, adds, cmdline, result,
          added, ret>>

(***************************************************************************)
(* Strings                                                                 *)
(***************************************************************************)
UpperChars == <<"A","B","C","D","E","F","G","H","I","J","K","L","M",
                "N","O","P","Q","R","S","T","U","V","W","X","Y","Z">>

LowerChars == <<"a","b","c","d","e","f","g","h","i","j","k","l","m",
                "n","o","p","q","r","s","t","u","v","w","x","y","z">>

DigitChars == <<"0","1","2","3","4","5","6","7","8","9">>

Range(f) == {f[i] : i \in DOMAIN f}

\* unicode.ToLower on one (ASCII) character
ToLowerChar(c) ==
    IF c \in Range(UpperChars)
    THEN LowerChars[CHOOSE i \in DOMAIN UpperChars : UpperChars[i] = c]
    ELSE c

\* strings.ToLower
ToLower(s) == [i \in DOMAIN s |-> ToLowerChar(s[i])]

\* the regexp class \s
IsSpace(c) == c \in {" ", "\t", "\n", "\f", "\r"}

\* s[from..to) with 1-based from, Go slice s[from-1:to-1]
Slice(s, from, to) == SubSeq(s, from, to - 1)

RECURSIVE Join(_, _)
\* strings.Join(tokens, sep)
Join(tokens, sep) ==
    IF Len(tokens) = 0 THEN <<>>
    ELSE IF Len(tokens) = 1 THEN tokens[1]
    ELSE tokens[1] \o sep \o Join(Tail(tokens), sep)

RECURSIVE SplitFrom(_, _, _, _)
\* the fields of s[start..] separated by the one-character separator sep;
\* cur is the first position of the field being read, i the scan position
SplitFrom(s, sep, cur, i) ==
    IF i > Len(s) THEN <<Slice(s, cur, i)>>
    ELSE IF s[i] = sep THEN <<Slice(s, cur, i)>> \o SplitFrom(s, sep, i + 1, i + 1)
    ELSE SplitFrom(s, sep, cur, i + 1)

\* strings.Split(s, sep) for a one-character separator
Split(s, sep) == SplitFrom(s, sep, 1, 1)

(***************************************************************************)
(* Regular expressions built by compileStringsToRegex.  A compiled pattern *)
(* is the sequence of pieces written to enhancedWord; the surrounding      *)
(* template (key prefix, delimiter, value) is the same for every pattern.  *)
(***************************************************************************)
\* the mask written in place of a value by ScrubCmdline
Mask == <<"*","*","*","*","*","*","*","*">>

\* the class [^a-zA-Z0-9_*] of forbiddenSymbols
IsForbiddenSymbol(c) ==
    c \notin (Range(UpperChars) \cup Range(LowerChars) \cup Range(DigitChars) \cup {"_", "*"})

RECURSIVE enhanceWord(_, _)
\* the loop over originalRunes from index i on: the pieces appended to
\* enhancedWord and whether the word stayed valid
enhanceWord(runes, i) ==
    IF i > Len(runes) THEN [valid |-> TRUE, pieces |-> <<>>]
    ELSE IF runes[i] = "*"
         THEN IF i = Len(runes)
              THEN [valid |-> TRUE, pieces |-> <<[t |-> "untilDelim", c |-> ""]>>]
              ELSE IF runes[i + 1] = "*"
                   THEN [valid |-> FALSE, pieces |-> <<>>]
                   ELSE LET rest == enhanceWord(runes, i + 1)
                        IN  [valid |-> rest.valid,
                             pieces |-> <<[t |-> "except", c |-> runes[i + 1]]>> \o rest.pieces]
         ELSE LET rest == enhanceWord(runes, i + 1)
              IN  [valid |-> rest.valid,
                   pieces |-> <<[t |-> "lit", c |-> runes[i]]>> \o rest.pieces]

RECURSIVE compileStringsToRegexAborting(_)
\* compileStringsToRegex that returns at the first word it rejects
compileStringsToRegexAborting(words) ==
    IF Len(words) = 0 THEN <<>>
    ELSE LET word == words[1]
             enhanced == enhanceWord(word, 1)
         IN  IF \E i \in DOMAIN word : IsForbiddenSymbol(word[i]) THEN <<>>
             ELSE IF word = <<"*">> THEN <<>>
             ELSE IF ~enhanced.valid THEN <<>>
             ELSE <<enhanced.pieces>> \o compileStringsToRegexAborting(Tail(words))

RECURSIVE compileStringsToRegex(_)
\* one pattern per accepted word, in the order of the words
compileStringsToRegex(words) ==
    IF Len(words) = 0 THEN <<>>
    ELSE LET word == words[1]
             rest == compileStringsToRegex(Tail(words))
             enhanced == enhanceWord(word, 1)
         IN  IF \E i \in DOMAIN word : IsForbiddenSymbol(word[i]) THEN rest
             ELSE IF word = <<"*">> THEN rest
             ELSE IF ~enhanced.valid THEN rest
             ELSE <<enhanced.pieces>> \o rest

\* does character x belong to the character class, under (?i) for the
\* classes of the word
ClassAccepts(class, x) ==
    CASE class.t = "lit"        -> ToLowerChar(x) = ToLowerChar(class.c)
      [] class.t = "except"     -> ~IsSpace(x) /\ ToLowerChar(x) # ToLowerChar(class.c)
      [] class.t = "untilDelim" -> x \notin {" ", "="}
      [] class.t = "blank"      -> x = " "
      [] class.t = "dash"       -> x = "-"
      [] class.t = "nonspace"   -> ~IsSpace(x)

Blank == [t |-> "blank", c |-> ""]
Dash == [t |-> "dash", c |-> ""]
NonSpace == [t |-> "nonspace", c |-> ""]

RECURSIVE RunLength(_, _, _)
\* length of the longest run of characters of the class that starts at pos
RunLength(s, pos, class) ==
    IF pos <= Len(s) /\ ClassAccepts(class, s[pos])
    THEN 1 + RunLength(s, pos + 1, class)
    ELSE 0

RECURSIVE MatchPieces(_, _, _, _)
RECURSIVE StarEnds(_, _, _, _, _)
\* the positions at which pieces[k..] can stop when started at pos, in the
\* order in which the backtracking search of the engine tries them
MatchPieces(pieces, k, s, pos) ==
    IF k > Len(pieces) THEN <<pos>>
    ELSE IF pieces[k].t = "lit"
         THEN IF pos <= Len(s) /\ ClassAccepts(pieces[k], s[pos])
              THEN MatchPieces(pieces, k + 1, s, pos + 1)
              ELSE <<>>
         ELSE StarEnds(pieces, k, s, pos, RunLength(s, pos, pieces[k]))

\* a greedy star that may take up to n characters: longest first
StarEnds(pieces, k, s, pos, n) ==
    MatchPieces(pieces, k + 1, s, pos + n)
        \o (IF n = 0 THEN <<>> ELSE StarEnds(pieces, k, s, pos, n - 1))

RECURSIVE SpacesThenWord(_, _, _, _)
\* alternative " +" of the key prefix followed by the word: n spaces first,
\* then fewer
SpacesThenWord(pieces, s, i, n) ==
    IF n = 0 THEN <<>>
    ELSE MatchPieces(pieces, 1, s, i + n) \o SpacesThenWord(pieces, s, i, n - 1)

\* alternative " -{1,2}" of the key prefix followed by the word
DashesThenWord(pieces, s, i) ==
    IF i <= Len(s) /\ s[i] = " "
    THEN LET d == RunLength(s, i + 1, Dash)
         IN  (IF d >= 2 THEN MatchPieces(pieces, 1, s, i + 3) ELSE <<>>)
                 \o (IF d >= 1 THEN MatchPieces(pieces, 1, s, i + 2) ELSE <<>>)
    ELSE <<>>

\* KeyEnds of a pattern whose key prefix lacks the alternative " -{1,2}"
KeyEndsSpacesOnly(pieces, s, i) ==
    SpacesThenWord(pieces, s, i, RunLength(s, i, Blank))

\* the ends of the key group "( +| -{1,2})(?i)word" started at i, in
\* search order
KeyEnds(pieces, s, i) ==
    SpacesThenWord(pieces, s, i, RunLength(s, i, Blank)) \o DashesThenWord(pieces, s, i)

\* the end of the delimiter group " +|=" started at a, or 0 if it fails
DelimiterEnd(s, a) ==
    IF a <= Len(s) /\ s[a] = " " THEN a + RunLength(s, a, Blank)
    ELSE IF a <= Len(s) /\ s[a] = "=" THEN a + 1
    ELSE 0

\* the match of the whole pattern started exactly at i: the first key end
\* after which the delimiter matches; the value [^\s]* never fails
MatchAt(pieces, s, i) ==
    LET ends == KeyEnds(pieces, s, i)
        good == {j \in DOMAIN ends : DelimiterEnd(s, ends[j]) # 0}
    IN  IF good = {} THEN [found |-> FALSE, i |-> i, a |-> 0, b |-> 0, c |-> 0]
        ELSE LET j == CHOOSE x \in good : \A y \in good : x <= y
                 a == ends[j]
                 b == DelimiterEnd(s, a)
             IN  [found |-> TRUE, i |-> i, a |-> a, b |-> b,
                  c |-> b + RunLength(s, b, NonSpace)]

RECURSIVE FindFrom(_, _, _)
\* the leftmost match that starts at or after i
FindFrom(pieces, s, i) ==
    IF i > Len(s) THEN [found |-> FALSE, i |-> i, a |-> 0, b |-> 0, c |-> 0]
    ELSE LET m == MatchAt(pieces, s, i)
         IN  IF m.found THEN m ELSE FindFrom(pieces, s, i + 1)

\* regexp.MatchString
MatchString(pieces, s) == FindFrom(pieces, s, 1).found

RECURSIVE ReplaceFromKeyOnly(_, _, _)
\* ReplaceFrom with the template "${key}********"
ReplaceFromKeyOnly(pieces, s, i) ==
    CHOOSE out \in
        { IF ~m.found THEN Slice(s, i, Len(s) + 1)
          ELSE Slice(s, i, m.i) \o Slice(s, m.i, m.a) \o Mask
                   \o ReplaceFromKeyOnly(pieces, s, m.c)
          : m \in {FindFrom(pieces, s, i)} } : TRUE

RECURSIVE ReplaceFrom(_, _, _)
\* regexp.ReplaceAllString(s, "${key}${delimiter}********") from position i:
\* m is the next match, found once; the text before it and its key and
\* delimiter are copied, its value is replaced, and the search resumes
\* after the value
ReplaceFrom(pieces, s, i) ==
    CHOOSE out \in
        { IF ~m.found THEN Slice(s, i, Len(s) + 1)
          ELSE Slice(s, i, m.i) \o Slice(s, m.i, m.a) \o Slice(s, m.a, m.b) \o Mask
                   \o ReplaceFrom(pieces, s, m.c)
          : m \in {FindFrom(pieces, s, i)} } : TRUE

ReplaceAllString(pieces, s) == ReplaceFrom(pieces, s, 1)

(***************************************************************************)
(* DataScrubber                                                            *)
(***************************************************************************)
defaultSensitiveWords ==
    << <<"p","a","s","s","w","o","r","d">>,
       <<"p","a","s","s","w","d">>,
       <<"m","y","s","q","l","_","p","w","d">>,
       <<"a","c","c","e","s","s","_","t","o","k","e","n">>,
       <<"a","u","t","h","_","t","o","k","e","n">>,
       <<"a","p","i","_","k","e","y">>,
       <<"a","p","i","k","e","y">>,
       <<"s","e","c","r","e","t">>,
       <<"c","r","e","d","e","n","t","i","a","l","s">>,
       <<"s","t","r","i","p","e","t","o","k","e","n">> >>

\* the scrubber of a fresh configuration; StripAllArguments is the field
\* the configuration stages assign, false until one of them sets it
NewDefaultDataScrubber ==
    [Enabled |-> TRUE,
     SensitivePatterns |-> compileStringsToRegex(defaultSensitiveWords),
     StripAllArguments |-> FALSE]

RECURSIVE ScrubLoop(_, _, _, _)
\* the loop over ds.SensitivePatterns from index k on; replaced is the value
\* assigned to rawCmdline by a pattern that matches
ScrubLoop(patterns, k, rawCmdline, changed) ==
    IF k > Len(patterns) THEN [rawCmdline |-> rawCmdline, changed |-> changed]
    ELSE IF MatchString(patterns[k], rawCmdline)
         THEN CHOOSE out \in
                  { ScrubLoop(patterns, k + 1, replaced, TRUE)
                    : replaced \in {ReplaceAllString(patterns[k], rawCmdline)} } : TRUE
         ELSE ScrubLoop(patterns, k + 1, rawCmdline, changed)

\* the loop of ScrubCmdline run on the joined command line
ScrubJoined(ds, tokens) ==
    CHOOSE out \in
        { ScrubLoop(ds.SensitivePatterns, 1, rawCmdline, FALSE)
          : rawCmdline \in {Join(tokens, <<" ">>)} } : TRUE

\* ScrubCmdline without the test of ds.Enabled
ScrubCmdlineAlwaysOn(ds, tokens) ==
    CHOOSE newCmdline \in
        { IF out.changed THEN Split(out.rawCmdline, " ") ELSE tokens
          : out \in {ScrubJoined(ds, tokens)} } : TRUE

\* ScrubCmdline that splits the joined command line even when unchanged
ScrubCmdlineAlwaysSplit(ds, tokens) ==
    IF ~ds.Enabled THEN tokens
    ELSE Split(ScrubJoined(ds, tokens).rawCmdline, " ")

ScrubCmdline(ds, tokens) ==
    IF ~ds.Enabled THEN tokens
    ELSE CHOOSE newCmdline \in
             { IF out.changed THEN Split(out.rawCmdline, " ") ELSE tokens
               : out \in {ScrubJoined(ds, tokens)} } : TRUE

AddCustomSensitiveWords(ds, words) ==
    [ds EXCEPT !.SensitivePatterns = @ \o compileStringsToRegex(words)]

(***************************************************************************)
(* Configuration sources.  A source is a function from its keys to         *)
(* entries [set, v]: whether the source mentions the key and, if so, the   *)
(* value it gives.                                                         *)
(***************************************************************************)
Unset(zero) == [set |-> FALSE, v |-> zero]
Given(value) == [set |-> TRUE, v |-> value]

\* File.Get: the value of a key, with an error when the key is missing
Get(file, key) ==
    IF file[key].set THEN [v |-> file[key].v, err |-> FALSE]
    ELSE [v |-> <<>>, err |-> TRUE]

\* File.GetDefault, GetIntDefault, GetBool, GetStrArrayDefault and
\* GetDurationDefault: the value of a key, or the default when it is missing
GetDefault(file, key, default) == IF file[key].set THEN file[key].v ELSE default
GetIntDefault(file, key, default) == IF file[key].set THEN file[key].v ELSE default
GetBool(file, key, default) == IF file[key].set THEN file[key].v ELSE default
GetStrArrayDefault(file, key, default) == IF file[key].set THEN file[key].v ELSE default
GetDurationDefault(file, key, default) == IF file[key].set THEN file[key].v ELSE default

\* os.Getenv: the empty string for a variable that is not set
Getenv(environ, name) == IF environ[name].set THEN environ[name].v ELSE <<>>

\* isAffirmative that compares the value as written
isAffirmativeCaseSensitive(value) ==
    IF value = <<>> THEN [ok |-> FALSE, err |-> TRUE]
    ELSE [ok |-> value \in {<<"t","r","u","e">>, <<"y","e","s">>, <<"1">>}, err |-> FALSE]

\* isAffirmative: (value, error)
isAffirmative(value) ==
    IF value = <<>> THEN [ok |-> FALSE, err |-> TRUE]
    ELSE LET v == ToLower(value)
         IN  [ok |-> v \in {<<"t","r","u","e">>, <<"y","e","s">>, <<"1">>}, err |-> FALSE]

RECURSIVE DigitsValue(_, _)
\* the number written by the first n characters of a string of digits
DigitsValue(s, n) ==
    IF n = 0 THEN 0
    ELSE 10 * DigitsValue(s, n - 1)
           + ((CHOOSE i \in DOMAIN DigitChars : DigitChars[i] = s[n]) - 1)

\* strconv.Atoi: (value, error)
Atoi(s) ==
    LET signed == Len(s) > 0 /\ s[1] \in {"+", "-"}
        digits == IF signed THEN Tail(s) ELSE s
    IN  IF Len(digits) = 0 \/ \E i \in DOMAIN digits : digits[i] \notin Range(DigitChars)
        THEN [v |-> 0, err |-> TRUE]
        ELSE [v |-> IF signed /\ s[1] = "-"
                    THEN 0 - DigitsValue(digits, Len(digits))
                    ELSE DigitsValue(digits, Len(digits)),
              err |-> FALSE]

RECURSIVE TrimLeft(_)
TrimLeft(s) == IF Len(s) > 0 /\ IsSpace(s[1]) THEN TrimLeft(Tail(s)) ELSE s

RECURSIVE TrimRight(_)
TrimRight(s) ==
    IF Len(s) > 0 /\ IsSpace(s[Len(s)]) THEN TrimRight(SubSeq(s, 1, Len(s) - 1)) ELSE s

\* strings.TrimSpace
TrimSpace(s) == TrimRight(TrimLeft(s))

\* regexp.Compile of a blacklist pattern: a pattern with an unclosed or
\* unopened group does not compile
RECURSIVE ParenDepth(_, _)
ParenDepth(s, n) ==
    IF n = 0 THEN 0
    ELSE LET d == ParenDepth(s, n - 1)
         IN  IF d < 0 THEN d
             ELSE IF s[n] = "(" THEN d + 1
             ELSE IF s[n] = ")" THEN d - 1
             ELSE d

NilRegexp == [nil |-> TRUE, src |-> <<>>]

regexpCompile(b) ==
    IF ParenDepth(b, Len(b)) = 0
    THEN [r |-> [nil |-> FALSE, src |-> b], err |-> FALSE]
    ELSE [r |-> NilRegexp, err |-> TRUE]

(***************************************************************************)
(* URLs (net/url), as far as the proxy and endpoint settings use them      *)
(***************************************************************************)
RECURSIVE IndexFrom(_, _, _)
\* the least 0-based index at or after i at which sub occurs in s, or -1
IndexFrom(s, sub, i) ==
    IF i + Len(sub) > Len(s) THEN -1
    ELSE IF SubSeq(s, i + 1, i + Len(sub)) = sub THEN i
    ELSE IndexFrom(s, sub, i + 1)

\* strings.Index
Index(s, sub) == CHOOSE out \in {IndexFrom(v, sub, 0) : v \in {s}} : TRUE

RECURSIVE LastIndexFrom(_, _, _)
LastIndexFrom(s, sub, i) ==
    IF i < 0 THEN -1
    ELSE IF SubSeq(s, i + 1, i + Len(sub)) = sub THEN i
    ELSE LastIndexFrom(s, sub, i - 1)

\* strings.LastIndex
LastIndex(s, sub) ==
    CHOOSE out \in {LastIndexFrom(v, sub, Len(v) - Len(sub)) : v \in {s}} : TRUE

RECURSIVE Itoa(_)
\* strconv.Itoa, also the text fmt prints for an int under %v
Itoa(n) ==
    IF n < 0 THEN <<"-">> \o Itoa(0 - n)
    ELSE IF n < 10 THEN <<DigitChars[n + 1]>>
    ELSE Itoa(n \div 10) \o <<DigitChars[(n % 10) + 1]>>

\* the characters that url.Userinfo.String writes percent-encoded, with
\* their encodings
UserinfoEscapes ==
    [c \in {"@", "/", "?", ":", " ", "%"} |->
        CASE c = "@" -> <<"%","4","0">>
          [] c = "/" -> <<"%","2","F">>
          [] c = "?" -> <<"%","3","F">>
          [] c = ":" -> <<"%","3","A">>
          [] c = " " -> <<"%","2","0">>
          [] c = "%" -> <<"%","2","5">>]

RECURSIVE escapeFrom(_, _)
\* the encoding of s from its i-th character on
escapeFrom(s, i) ==
    IF i > Len(s) THEN <<>>
    ELSE (IF s[i] \in DOMAIN UserinfoEscapes THEN UserinfoEscapes[s[i]] ELSE <<s[i]>>)
             \o escapeFrom(s, i + 1)

\* url.escape(s, encodeUserPassword)
escapeUserinfo(s) == CHOOSE out \in {escapeFrom(v, 1) : v \in {s}} : TRUE

RECURSIVE unescapeFrom(_, _)
\* the decoding of s from its i-th character on: (value, error)
unescapeFrom(s, i) ==
    IF i > Len(s) THEN [v |-> <<>>, err |-> FALSE]
    ELSE IF s[i] = "%"
         THEN IF \E c \in DOMAIN UserinfoEscapes :
                    i + 2 <= Len(s) /\ SubSeq(s, i, i + 2) = UserinfoEscapes[c]
              THEN CHOOSE out \in
                       {[v |-> <<CHOOSE x \in DOMAIN UserinfoEscapes :
                                     SubSeq(s, i, i + 2) = UserinfoEscapes[x]>> \o rest.v,
                         err |-> rest.err] : rest \in {unescapeFrom(s, i + 3)}} : TRUE
              ELSE [v |-> <<>>, err |-> TRUE]
         ELSE CHOOSE out \in {[v |-> <<s[i]>> \o rest.v, err |-> rest.err] :
                                  rest \in {unescapeFrom(s, i + 1)}} : TRUE

\* url.unescape(s, encodeUserPassword): (value, error)
unescapeUserinfo(s) == CHOOSE out \in {unescapeFrom(v, 1) : v \in {s}} : TRUE

\* url.Userinfo.String
UserinfoString(u) ==
    escapeUserinfo(u.Username)
        \o (IF u.PasswordSet THEN <<":">> \o escapeUserinfo(u.Password) ELSE <<>>)

NilUserinfo == [nil |-> TRUE, Username |-> <<>>, Password |-> <<>>, PasswordSet |-> FALSE]
\* url.User and url.UserPassword
User(username) == [nil |-> FALSE, Username |-> username, Password |-> <<>>, PasswordSet |-> FALSE]
UserPassword(username, password) ==
    [nil |-> FALSE, Username |-> username, Password |-> password, PasswordSet |-> TRUE]

NilURL == [nil |-> TRUE, Scheme |-> <<>>, Opaque |-> <<>>, User |-> NilUserinfo,
           Host |-> <<>>, Path |-> <<>>]

\* the characters of a URL scheme: its first one, and the others
SchemeStart == Range(UpperChars) \cup Range(LowerChars)
SchemeChars == SchemeStart \cup Range(DigitChars) \cup {"+", "-", "."}
PortChars == Range(DigitChars)

\* url.getScheme when the first colon of rawurl is at index i (or i is -1)
getSchemeAt(rawurl, i) ==
    LET isScheme == /\ i > 0
                    /\ rawurl[1] \in SchemeStart
                    /\ \A k \in 1..i : rawurl[k] \in SchemeChars
    IN  IF i = 0 THEN [scheme |-> <<>>, rest |-> <<>>, err |-> TRUE]
        ELSE IF isScheme
             THEN [scheme |-> SubSeq(rawurl, 1, i), rest |-> SubSeq(rawurl, i + 2, Len(rawurl)),
                   err |-> FALSE]
             ELSE [scheme |-> <<>>, rest |-> rawurl, err |-> FALSE]

\* url.getScheme: (scheme, rest, error)
getScheme(rawurl) ==
    CHOOSE out \in {getSchemeAt(v, Index(v, <<":">>)) : v \in {rawurl}} : TRUE

\* the characters url.parseHost refuses in a host name
InvalidHostChars == {" ", "%", "^", "{", "|", "}"}

\* url.parseAuthority when the user-info and the host are separated
parseUserHost(userinfo, host, hasUser) ==
    LET colon == LastIndex(host, <<":">>)
        port == IF colon < 0 THEN <<>> ELSE SubSeq(host, colon + 2, Len(host))
        sep == Index(userinfo, <<":">>)
    IN  CHOOSE out \in
            {[user |-> IF ~hasUser THEN NilUserinfo
                       ELSE IF sep < 0 THEN User(username.v)
                       ELSE UserPassword(username.v, password.v),
              host |-> host,
              err |-> \/ \E k \in DOMAIN host : host[k] \in InvalidHostChars
                      \/ \E k \in DOMAIN port : port[k] \notin PortChars
                      \/ username.err \/ password.err] :
                username \in {unescapeUserinfo(IF sep < 0 THEN userinfo
                                               ELSE SubSeq(userinfo, 1, sep))},
                password \in {unescapeUserinfo(IF sep < 0 THEN <<>>
                                               ELSE SubSeq(userinfo, sep + 2, Len(userinfo)))}} :
            TRUE

\* url.parseAuthority when the last "@" of authority is at index i (or i is -1)
parseAuthorityAt(authority, i) ==
    parseUserHost(IF i < 0 THEN <<>> ELSE SubSeq(authority, 1, i),
                  IF i < 0 THEN authority ELSE SubSeq(authority, i + 2, Len(authority)),
                  i >= 0)

\* url.parseAuthority: (user, host, error)
parseAuthority(authority) ==
    CHOOSE out \in {parseAuthorityAt(v, LastIndex(v, <<"@">>)) : v \in {authority}} : TRUE

\* url.Parse after getScheme returned sch without error
parseRest(sch) ==
    LET hasAuthority == Len(sch.rest) >= 2 /\ SubSeq(sch.rest, 1, 2) = <<"/","/">>
        afterSlashes == SubSeq(sch.rest, 3, Len(sch.rest))
    IN  IF hasAuthority
        THEN CHOOSE out \in
                 {IF auth.err THEN [u |-> NilURL, err |-> TRUE]
                  ELSE [u |-> [nil |-> FALSE, Scheme |-> ToLower(sch.scheme), Opaque |-> <<>>,
                               User |-> auth.user, Host |-> auth.host,
                               Path |-> IF slash < 0 THEN <<>>
                                        ELSE SubSeq(afterSlashes, slash + 1, Len(afterSlashes))],
                        err |-> FALSE] :
                     slash \in {Index(afterSlashes, <<"/">>)},
                     auth \in {parseAuthority(
                                  IF Index(afterSlashes, <<"/">>) < 0 THEN afterSlashes
                                  ELSE SubSeq(afterSlashes, 1, Index(afterSlashes, <<"/">>)))}} :
                 TRUE
        ELSE IF sch.scheme # <<>> /\ (Len(sch.rest) = 0 \/ sch.rest[1] # "/")
             THEN [u |-> [nil |-> FALSE, Scheme |-> ToLower(sch.scheme), Opaque |-> sch.rest,
                          User |-> NilUserinfo, Host |-> <<>>, Path |-> <<>>],
                   err |-> FALSE]
             ELSE [u |-> [nil |-> FALSE, Scheme |-> ToLower(sch.scheme), Opaque |-> <<>>,
                          User |-> NilUserinfo, Host |-> <<>>, Path |-> sch.rest],
                   err |-> FALSE]

\* url.Parse: (url, error)
urlParse(rawurl) ==
    CHOOSE out \in {IF sch.err THEN [u |-> NilURL, err |-> TRUE] ELSE parseRest(sch) :
                        sch \in {getScheme(rawurl)}} : TRUE

\* url.URL.String
URLString(u) ==
    (IF u.Scheme # <<>> THEN u.Scheme \o <<":">> ELSE <<>>)
        \o (IF u.Opaque # <<>> THEN u.Opaque
            ELSE (IF u.Scheme # <<>> \/ u.Host # <<>> \/ ~u.User.nil
                  THEN (IF u.Host # <<>> \/ u.Path # <<>> \/ ~u.User.nil
                        THEN <<"/","/">> ELSE <<>>)
                           \o (IF ~u.User.nil THEN UserinfoString(u.User) \o <<"@">> ELSE <<>>)
                           \o u.Host
                  ELSE <<>>)
                     \o u.Path)

\* the default port used for proxies
defaultProxyPort == 3128

\* a nil proxyFunc, and http.ProxyURL(u): the function that returns u for
\* every request
NilProxy == [nil |-> TRUE, fixedURL |-> NilURL]
ProxyURL(u) == [nil |-> FALSE, fixedURL |-> u]

\* the call pf(request) of a proxyFunc that is not nil: (url, error)
CallProxyFunc(pf, request) == [u |-> pf.fixedURL, err |-> FALSE]

\* constructProxy that leaves the user-info out
constructProxyNoUserinfo(host, scheme, port, user, password) ==
    LET path0 == host \o <<":">> \o Itoa(port)
        path == IF scheme # <<>> THEN scheme \o <<":","/","/">> \o path0 ELSE path0
    IN  CHOOSE out \in {IF parsed.err THEN [proxy |-> NilProxy, err |-> TRUE]
                         ELSE [proxy |-> ProxyURL(parsed.u), err |-> FALSE] :
                            parsed \in {urlParse(path)}} : TRUE

\* constructProxy: (proxyFunc, error)
constructProxy(host, scheme, port, user, password) ==
    LET userpass == IF user # <<>>
                    THEN IF password # <<>> THEN UserPassword(user, password) ELSE User(user)
                    ELSE NilUserinfo
        path0 == IF ~userpass.nil
                 THEN UserinfoString(userpass) \o <<"@">> \o host \o <<":">> \o Itoa(port)
                 ELSE host \o <<":">> \o Itoa(port)
        path == IF scheme # <<>> THEN scheme \o <<":","/","/">> \o path0 ELSE path0
    IN  CHOOSE out \in {IF parsed.err THEN [proxy |-> NilProxy, err |-> TRUE]
                         ELSE [proxy |-> ProxyURL(parsed.u), err |-> FALSE] :
                            parsed \in {urlParse(path)}} : TRUE

\* getProxySettings on the [Main] section of the legacy file
getProxySettings(m) ==
    LET v == GetDefault(m, "proxy_host", <<>>)
        i == Index(v, <<":","/","/">>)
        scheme == IF v # <<>> /\ i # -1 THEN SubSeq(v, 1, i) ELSE <<"h","t","t","p">>
        host == IF v # <<>> /\ i # -1 THEN SubSeq(v, i + 4, Len(v)) ELSE v
        p == GetIntDefault(m, "proxy_port", -1)
        port == IF p # -1 THEN p ELSE defaultProxyPort
    IN  IF host = <<>> THEN [proxy |-> NilProxy, err |-> FALSE]
        ELSE constructProxy(host, scheme, port, GetDefault(m, "proxy_user", <<>>),
                            GetDefault(m, "proxy_password", <<>>))

\* proxyFromEnv(defaultVal) in environment environ
proxyFromEnv(defaultVal, environ) ==
    LET v == Getenv(environ, "PROXY_HOST")
        i == Index(v, <<":","/","/">>)
        scheme == IF v # <<>> /\ i # -1 THEN SubSeq(v, 1, i) ELSE <<"h","t","t","p">>
        host == IF v # <<>> /\ i # -1 THEN SubSeq(v, i + 4, Len(v)) ELSE v
        port == IF Getenv(environ, "PROXY_PORT") # <<>>
                THEN Atoi(Getenv(environ, "PROXY_PORT")).v
                ELSE defaultProxyPort
    IN  IF host = <<>> THEN [proxy |-> defaultVal, err |-> FALSE]
        ELSE constructProxy(host, scheme, port, Getenv(environ, "PROXY_USER"),
                            Getenv(environ, "PROXY_PASSWORD"))

(***************************************************************************)
(* AgentConfig                                                             *)
(***************************************************************************)
maxMessageBatch == 100

processChecks == <<"process", "rtprocess">>
containerChecks == <<"container", "rtcontainer">>

\* the binary mergeYamlConfig falls back to for the hostname command
defaultDDAgentBin == <<"/","o","p","t","/","d","a","t","a","d","o","g","-","a","g","e","n","t","/","b","i","n","/","a","g","e","n","t","/","a","g","e","n","t">>

defaultEndpoint == <<"h","t","t","p","s",":","/","/","p","r","o","c","e","s","s",".","d","a","t","a","d","o","g","h","q",".","c","o","m">>

\* url.Parse(defaultEndpoint) in NewDefaultAgentConfig
defaultAPIEndpoint == urlParse(defaultEndpoint)

\* the interpreter NewDefaultAgentConfig names for the hostname script
defaultDDAgentPy == <<"p","y","t","h","o","n">>

\* the script the interpreter is given
getHostnameCmd == <<"f","r","o","m"," ","u","t","i","l","s",".","h","o","s","t","n","a","m","e"," ","i","m","p","o","r","t"," ","g","e","t","_","h","o","s","t","n","a","m","e",";"," ","p","r","i","n","t"," ","g","e","t","_","h","o","s","t","n","a","m","e","(",")">>

\* exec.Command in getHostname: the agent binary when there is one, the
\* interpreter with the script otherwise
hostnameCommand(ddAgentPy, ddAgentBin) ==
    IF ddAgentBin # <<>> THEN [path |-> ddAgentBin, args |-> <<<<"h","o","s","t","n","a","m","e">>>>]
    ELSE [path |-> ddAgentPy, args |-> <<<<"-","c">>, getHostnameCmd>>]

\* cmd.Run on this host: whether it returns at all, its error (the command
\* could not be started or exited with a non-zero status) and what the
\* command wrote to its standard output
cmdRun(cmd, environ) ==
    [returns |-> environ["hostnameCommand"].v.kind # "hangs",
     err |-> environ["hostnameCommand"].v.kind \in {"launch-failed", "exit-nonzero"},
     stdout |-> environ["hostnameCommand"].v.stdout]

\* os.Hostname on this host: (name, error)
osHostname(environ) ==
    [v |-> environ["osHostname"].v.name, err |-> environ["osHostname"].v.err]

\* getHostname that returns what the command printed, blank or not
getHostnameNoBlankCheck(ddAgentPy, ddAgentBin, environ) ==
    LET run == cmdRun(hostnameCommand(ddAgentPy, ddAgentBin), environ)
        hostname == TrimSpace(run.stdout)
    IN  IF run.err
        THEN [returns |-> run.returns, v |-> osHostname(environ).v,
              err |-> osHostname(environ).err]
        ELSE [returns |-> run.returns, v |-> hostname, err |-> FALSE]

\* getHostname: (hostname, error), and whether the call returns
getHostname(ddAgentPy, ddAgentBin, environ) ==
    LET run == cmdRun(hostnameCommand(ddAgentPy, ddAgentBin), environ)
        hostname == TrimSpace(run.stdout)
    IN  IF run.err
        THEN [returns |-> run.returns, v |-> osHostname(environ).v,
              err |-> osHostname(environ).err]
        ELSE IF hostname = <<>>
             THEN [returns |-> run.returns, v |-> osHostname(environ).v,
                   err |-> osHostname(environ).err]
             ELSE [returns |-> run.returns, v |-> hostname, err |-> FALSE]

\* NewDefaultAgentConfig; canAccessContainers is whether the container
\* listing succeeded on this host
NewDefaultAgentConfig(canAccessContainers) ==
    [cfg |-> [Enabled |-> canAccessContainers,
              APIKey |-> <<>>,
              HostName |-> <<>>,
              APIEndpoint |-> defaultAPIEndpoint.u,
              DDAgentPy |-> defaultDDAgentPy,
              LogLevel |-> <<"i","n","f","o">>,
              LogToConsole |-> FALSE,
              proxy |-> NilProxy,
              QueueSize |-> 20,
              MaxProcFDs |-> 200,
              MaxPerMessage |-> 100,
              Blacklist |-> <<>>,
              DDAgentBin |-> <<>>,
              StatsdPort |-> 8125,
              EnabledChecks |-> containerChecks,
              CheckIntervals |-> [process |-> 10, rtprocess |-> 2, container |-> 10,
                                  rtcontainer |-> 2, connections |-> 10],
              ContainerCacheDuration |-> 10,
              Windows |-> [ArgsRefreshInterval |-> 15, AddNewArgs |-> TRUE]],
     ds |-> NewDefaultDataScrubber]

RECURSIVE compileBlacklistIni(_)
\* the blacklist loop of NewAgentConfig: patterns that compile are kept
compileBlacklistIni(pats) ==
    IF Len(pats) = 0 THEN <<>>
    ELSE LET c == regexpCompile(pats[1])
         IN  (IF ~c.err THEN <<c.r>> ELSE <<>>) \o compileBlacklistIni(Tail(pats))

RECURSIVE compileBlacklistYaml(_)
\* the blacklist loop of mergeYamlConfig: the result of every compilation
\* is appended
compileBlacklistYaml(pats) ==
    IF Len(pats) = 0 THEN <<>>
    ELSE <<regexpCompile(pats[1]).r>> \o compileBlacklistYaml(Tail(pats))

\* the result of a stage that failed: NewAgentConfig returns nil and the error
Failed(st) == [cfg |-> st.cfg, ds |-> st.ds, err |-> TRUE]
Succeeded(c, d) == [cfg |-> c, ds |-> d, err |-> FALSE]

\* clampBatchSize without the limit
clampBatchSizeOff(batchSize) == batchSize

\* NewAgentConfig, the limit on batchSize read from proc_limit
clampBatchSize(batchSize) ==
    IF batchSize <= maxMessageBatch THEN batchSize ELSE maxMessageBatch

\* NewAgentConfig, the block that pulls from the ini file (section # nil)
mergeIniConfig(st, file) ==
    LET a == Get(file, "api_key")
        enabled == isAffirmative(Get(file, "process_agent_enabled").v)
        blacklistPats == GetStrArrayDefault(file, "blacklist", <<>>)
        batchSize == GetIntDefault(file, "proc_limit", st.cfg.MaxPerMessage)
        u == urlParse(GetDefault(file, "endpoint", defaultEndpoint))
        c == [st.cfg EXCEPT
                !.APIKey = Split(a.v, ",")[1],
                !.APIEndpoint = u.u,
                !.LogLevel = ToLower(GetDefault(file, "log_level", <<"I","N","F","O">>)),
                !.proxy = getProxySettings(file).proxy,
                !.Enabled = IF enabled.ok THEN TRUE
                            ELSE IF ~enabled.err THEN FALSE ELSE @,
                !.EnabledChecks = IF enabled.ok THEN processChecks ELSE @,
                !.StatsdPort = GetIntDefault(file, "dogstatsd_port", @),
                !.QueueSize = GetIntDefault(file, "queue_size", @),
                !.Blacklist = compileBlacklistIni(blacklistPats),
                !.MaxPerMessage = clampBatchSize(batchSize),
                !.CheckIntervals =
                    [checkName \in DOMAIN @ |->
                        LET defaultInterval == @[checkName]
                            interval == GetDurationDefault(file, checkName \o "_interval",
                                                           defaultInterval)
                        IN  IF interval # defaultInterval THEN interval ELSE defaultInterval],
                !.ContainerCacheDuration =
                    GetDurationDefault(file, "container_cache_duration", 30),
                !.Windows.ArgsRefreshInterval =
                    GetIntDefault(file, "windows_args_refresh_interval", @),
                !.Windows.AddNewArgs = GetBool(file, "windows_add_new_args", TRUE)]
        d == [AddCustomSensitiveWords(st.ds,
                  GetStrArrayDefault(file, "custom_sensitive_words", <<>>))
                EXCEPT !.Enabled = GetBool(file, "scrub_args", TRUE),
                       !.StripAllArguments = GetBool(file, "strip_proc_arguments", FALSE)]
    IN  IF a.err \/ u.err THEN Failed(st) ELSE Succeeded(c, d)

\* NewYamlIfExists followed by yaml.Unmarshal: the YamlAgentConfig of a
\* document.  A key the document lacks leaves the zero value of its field,
\* or the preset of the two boolean pointers when presets is true.
YamlAgentConfig(doc, presets) ==
    [APIKey |-> GetDefault(doc, "api_key", <<>>),
     LogToConsole |-> GetBool(doc, "log_to_console", FALSE),
     Enabled |-> GetDefault(doc, "enabled", <<>>),
     Intervals |-> [Container |-> GetIntDefault(doc, "container", 0),
                    ContainerRealTime |-> GetIntDefault(doc, "container_realtime", 0),
                    Process |-> GetIntDefault(doc, "process", 0),
                    ProcessRealTime |-> GetIntDefault(doc, "process_realtime", 0)],
     BlacklistPatterns |-> GetStrArrayDefault(doc, "blacklist_patterns", <<>>),
     ScrubArgs |-> IF doc["scrub_args"].set THEN [nil |-> FALSE, v |-> doc["scrub_args"].v]
                   ELSE [nil |-> ~presets, v |-> TRUE],
     CustomSensitiveWords |-> GetStrArrayDefault(doc, "custom_sensitive_words", <<>>),
     StripProcessArguments |-> GetBool(doc, "strip_proc_arguments", FALSE),
     QueueSize |-> GetIntDefault(doc, "queue_size", 0),
     MaxPerMessage |-> GetIntDefault(doc, "max_per_message", 0),
     DDAgentBin |-> GetDefault(doc, "dd_agent_bin", <<>>),
     ProcessDDURL |-> GetDefault(doc, "process_dd_url", <<>>),
     ArgsRefreshInterval |-> GetIntDefault(doc, "args_refresh_interval", 0),
     AddNewArgs |-> IF doc["add_new_args"].set
                    THEN [nil |-> FALSE, v |-> doc["add_new_args"].v]
                    ELSE [nil |-> ~presets, v |-> TRUE],
     \* what ddconfig.Datadog holds for the two global keys
     GlobalLogLevel |-> GetDefault(doc, "log_level", <<"i","n","f","o">>),
     GlobalDogstatsdPort |-> GetIntDefault(doc, "dogstatsd_port", 8125)]

\* mergeYamlConfigEnabled without the branch for "disabled"
mergeYamlConfigEnabledTwoWay(c, value) ==
    LET enabled == isAffirmative(value)
    IN  IF enabled.ok THEN [c EXCEPT !.Enabled = TRUE, !.EnabledChecks = processChecks]
        ELSE IF ~enabled.err
             THEN [c EXCEPT !.Enabled = TRUE, !.EnabledChecks = containerChecks]
             ELSE c

\* mergeYamlConfig, the branches on yc.Process.Enabled
mergeYamlConfigEnabled(c, value) ==
    LET enabled == isAffirmative(value)
    IN  IF enabled.ok THEN [c EXCEPT !.Enabled = TRUE, !.EnabledChecks = processChecks]
        ELSE IF ToLower(value) = <<"d","i","s","a","b","l","e","d">>
             THEN [c EXCEPT !.Enabled = FALSE]
             ELSE IF ~enabled.err
                  THEN [c EXCEPT !.Enabled = TRUE, !.EnabledChecks = containerChecks]
                  ELSE c

mergeYamlConfig(st, yc) ==
    LET u == urlParse(yc.ProcessDDURL)
        c == [mergeYamlConfigEnabled(st.cfg, yc.Enabled) EXCEPT
                !.APIKey = yc.APIKey,
                !.APIEndpoint = IF yc.ProcessDDURL # <<>> THEN u.u ELSE @,
                !.LogToConsole = IF yc.LogToConsole THEN TRUE ELSE @,
                !.CheckIntervals =
                    [@ EXCEPT
                       !["container"] =
                           IF yc.Intervals.Container # 0 THEN yc.Intervals.Container ELSE @,
                       !["rtcontainer"] =
                           IF yc.Intervals.ContainerRealTime # 0
                           THEN yc.Intervals.ContainerRealTime ELSE @,
                       !["process"] =
                           IF yc.Intervals.Process # 0 THEN yc.Intervals.Process ELSE @,
                       !["rtprocess"] =
                           IF yc.Intervals.ProcessRealTime # 0
                           THEN yc.Intervals.Process ELSE @],
                !.Blacklist = compileBlacklistYaml(yc.BlacklistPatterns),
                !.QueueSize = IF yc.QueueSize > 0 THEN yc.QueueSize ELSE @,
                !.MaxPerMessage = IF yc.MaxPerMessage > 0 /\ yc.MaxPerMessage <= maxMessageBatch
                                  THEN yc.MaxPerMessage ELSE @,
                !.DDAgentBin = IF yc.DDAgentBin # <<>> THEN yc.DDAgentBin
                               ELSE defaultDDAgentBin,
                !.Windows.ArgsRefreshInterval =
                    IF yc.ArgsRefreshInterval # 0 THEN yc.ArgsRefreshInterval ELSE @,
                !.Windows.AddNewArgs = IF ~yc.AddNewArgs.nil THEN yc.AddNewArgs.v ELSE @,
                !.LogLevel = yc.GlobalLogLevel,
                !.StatsdPort = yc.GlobalDogstatsdPort]
        d == [AddCustomSensitiveWords(st.ds, yc.CustomSensitiveWords)
                EXCEPT !.Enabled = IF ~yc.ScrubArgs.nil THEN yc.ScrubArgs.v ELSE @,
                       !.StripAllArguments = IF yc.StripProcessArguments THEN TRUE ELSE @]
    IN  IF yc.ProcessDDURL # <<>> /\ u.err THEN Failed(st) ELSE Succeeded(c, d)

mergeEnvironmentVariables(st, environ) ==
    LET enabled == isAffirmative(Getenv(environ, "DD_PROCESS_AGENT_ENABLED"))
        apiKey == IF Getenv(environ, "DD_API_KEY") # <<>> THEN Getenv(environ, "DD_API_KEY")
                  ELSE Getenv(environ, "API_KEY")
        logLevel == IF Getenv(environ, "DD_LOG_LEVEL") # <<>>
                    THEN Getenv(environ, "DD_LOG_LEVEL")
                    ELSE Getenv(environ, "LOG_LEVEL")
        stdout == isAffirmative(Getenv(environ, "DD_LOGS_STDOUT"))
        console == isAffirmative(Getenv(environ, "LOG_TO_CONSOLE"))
        scrub == isAffirmative(Getenv(environ, "DD_SCRUB_ARGS"))
        words == Getenv(environ, "DD_CUSTOM_SENSITIVE_WORDS")
        strip == isAffirmative(Getenv(environ, "DD_STRIP_PROCESS_ARGS"))
        port == Atoi(Getenv(environ, "DD_DOGSTATSD_PORT"))
        cache == Atoi(Getenv(environ, "DD_CONTAINER_CACHE_DURATION"))
        connections == isAffirmative(Getenv(environ, "DD_CONNECTIONS_CHECK"))
        u == urlParse(Getenv(environ, "DD_PROCESS_AGENT_URL"))
        c == [st.cfg EXCEPT
                !.APIEndpoint = IF Getenv(environ, "DD_PROCESS_AGENT_URL") # <<>> /\ ~u.err
                                THEN u.u ELSE @,
                !.Enabled = IF enabled.ok THEN TRUE
                            ELSE IF ~enabled.err THEN FALSE ELSE @,
                !.HostName = IF Getenv(environ, "DD_HOSTNAME") # <<>>
                             THEN Getenv(environ, "DD_HOSTNAME") ELSE @,
                !.EnabledChecks =
                    (IF enabled.ok THEN processChecks ELSE @)
                        \o (IF connections.ok THEN <<"connections">> ELSE <<>>),
                !.APIKey = IF apiKey # <<>> THEN TrimSpace(Split(apiKey, ",")[1]) ELSE @,
                !.LogLevel = IF logLevel # <<>> THEN logLevel ELSE @,
                !.LogToConsole = IF ~console.err THEN console.ok
                                 ELSE IF ~stdout.err THEN stdout.ok ELSE @,
                !.proxy = CHOOSE out \in {IF p.err THEN NilProxy ELSE p.proxy :
                                              p \in {proxyFromEnv(@, environ)}} : TRUE,
                !.StatsdPort = IF Getenv(environ, "DD_DOGSTATSD_PORT") # <<>> /\ ~port.err
                               THEN port.v ELSE @,
                !.ContainerCacheDuration =
                    IF Getenv(environ, "DD_CONTAINER_CACHE_DURATION") # <<>>
                    THEN cache.v ELSE @]
        d0 == [st.ds EXCEPT !.Enabled = IF scrub.ok THEN TRUE
                                        ELSE IF ~scrub.err THEN FALSE ELSE @]
        d1 == IF words # <<>> THEN AddCustomSensitiveWords(d0, Split(words, ",")) ELSE d0
        d == [d1 EXCEPT !.StripAllArguments = IF strip.ok THEN TRUE ELSE @]
    IN  Succeeded(c, d)

\* NewAgentConfig after the three merges: log level alias and the sanity
\* check of the refresh interval
postProcess(st) ==
    Succeeded([st.cfg EXCEPT
                 !.LogLevel = IF ToLower(@) = <<"w","a","r","n","i","n","g">> THEN <<"w","a","r","n">> ELSE @,
                 !.Windows.ArgsRefreshInterval = IF @ = 0 THEN -1 ELSE @],
              st.ds)

\* the Fargate task identifier as a host name
fargateHostName(taskARN) == <<"f","a","r","g","a","t","e","_","t","a","s","k",":">> \o taskARN

\* NewAgentConfig, the host name of a configuration that has none yet;
\* environ["fargate"] is whether this is a Fargate instance and, if so, what
\* GetTaskMetadata returns
resolveHostName(st, environ) ==
    IF st.cfg.HostName # <<>> THEN st
    ELSE IF environ["fargate"].set
         THEN IF ~environ["fargate"].v.err
              THEN Succeeded([st.cfg EXCEPT
                                 !.HostName = fargateHostName(environ["fargate"].v.TaskARN)],
                             st.ds)
              ELSE st
         ELSE LET h == getHostname(st.cfg.DDAgentPy, st.cfg.DDAgentBin, environ)
              IN  IF ~h.err THEN Succeeded([st.cfg EXCEPT !.HostName = h.v], st.ds)
                  ELSE st

\* NewAgentConfig, the legacy file over the defaults s0
overlayIni(s0, ini) ==
    IF ~ini.nil /\ ini.keys["Main"].set THEN mergeIniConfig(s0, ini.keys)
    ELSE Succeeded(s0.cfg, s0.ds)

\* NewAgentConfig, the structured file over the result s1 of the legacy one
overlayYaml(s1, yaml) ==
    IF s1.err THEN s1
    ELSE IF ~yaml.nil
         THEN CHOOSE out \in {mergeYamlConfig(s1, yc) :
                                 yc \in {YamlAgentConfig(yaml.keys, yaml.presets)}} : TRUE
         ELSE s1

\* NewAgentConfig, the environment over the result s2 of the files
overlayEnv(s2, environ) ==
    IF s2.err THEN s2 ELSE mergeEnvironmentVariables(s2, environ)

\* the three merges of NewAgentConfig
mergeSources(ini, yaml, environ) ==
    CHOOSE out \in
        {overlayEnv(s2, environ) :
            s2 \in {CHOOSE o2 \in
                       {overlayYaml(s1, yaml) :
                           s1 \in {CHOOSE o1 \in
                                      {overlayIni(s0, ini) :
                                          s0 \in {NewDefaultAgentConfig(
                                                     environ["canAccessContainers"].set)}} :
                                      TRUE}} :
                       TRUE}} :
        TRUE

\* NewAgentConfigReturns when the merges gave s
returnsAfter(s, environ) ==
    \/ s.err
    \/ s.cfg.HostName # <<>>
    \/ environ["fargate"].set
    \/ getHostname(s.cfg.DDAgentPy, s.cfg.DDAgentBin, environ).returns

\* whether NewAgentConfig(agentIni, agentYaml) returns in environment
\* environ: it does unless it calls getHostname and that call does not
\* return
NewAgentConfigReturns(ini, yaml, environ) ==
    CHOOSE out \in {returnsAfter(s, environ) : s \in {mergeSources(ini, yaml, environ)}} : TRUE

\* NewAgentConfig after the merges gave s without error: the host name, the
\* log level alias and the sanity check
finish(s, environ) ==
    CHOOSE out \in {postProcess(h) : h \in {resolveHostName(s, environ)}} : TRUE

\* NewAgentConfig(agentIni, agentYaml) in environment environ, when it
\* returns
NewAgentConfig(ini, yaml, environ) ==
    CHOOSE out \in {IF s.err THEN s ELSE finish(s, environ) :
                        s \in {mergeSources(ini, yaml, environ)}} : TRUE

(***************************************************************************)
(* Inputs of a resolution.  Every key of every source has the entry it has *)
(* when nothing is said about it and the other entries tried for it; a     *)
(* scenario varies at most MaxMentioned keys.                              *)
(***************************************************************************)
MaxMentioned == 2

IniEntries ==
    [\* whether the file has a [Main] section
     Main |-> <<Given(TRUE), Unset(TRUE)>>,
     api_key |-> <<Given(<<"k","1">>), Given(<<"f","o","o",","," ","b","a","r"," ">>), Unset(<<>>)>>,
     log_level |-> <<Unset(<<>>), Given(<<"D","E","B","U","G">>)>>,
     endpoint |-> <<Unset(<<>>), Given(<<"h","t","t","p","s",":","/","/","i","n","i",".","e","x","a","m","p","l","e",".","c","o","m">>),
                    Given(<<"h","t","t","p","s",":","/","/","b","a","d"," ","h","o","s","t">>)>>,
     proxy_host |-> <<Unset(<<>>), Given(<<"m","y","h","o","s","t">>), Given(<<"m","y"," ","h","o","s","t">>)>>,
     proxy_port |-> <<Unset(0)>>,
     proxy_user |-> <<Unset(<<>>)>>,
     proxy_password |-> <<Unset(<<>>)>>,
     process_agent_enabled |-> <<Unset(<<>>), Given(<<"t","r","u","e">>), Given(<<"f","a","l","s","e">>), Given(<<"T","r","u","e">>)>>,
     dogstatsd_port |-> <<Unset(0), Given(9125)>>,
     queue_size |-> <<Unset(0), Given(5)>>,
     blacklist |-> <<Unset(<<>>), Given(<<<<"^","g","e","t","t","y">>>>), Given(<<<<"(">>, <<"^","g","e","t","t","y">>>>)>>,
     scrub_args |-> <<Unset(FALSE), Given(FALSE), Given(TRUE)>>,
     custom_sensitive_words |-> <<Unset(<<>>), Given(<<<<"c","o","n","s","u","l","_","t","o","k","e","n">>>>)>>,
     strip_proc_arguments |-> <<Unset(FALSE), Given(TRUE)>>,
     proc_limit |-> <<Unset(0), Given(50), Given(500)>>,
     process_interval |-> <<Unset(0), Given(20)>>,
     rtprocess_interval |-> <<Unset(0)>>,
     container_interval |-> <<Unset(0)>>,
     rtcontainer_interval |-> <<Unset(0)>>,
     connections_interval |-> <<Unset(0), Given(15)>>,
     container_cache_duration |-> <<Unset(0), Given(60)>>,
     windows_args_refresh_interval |-> <<Unset(0), Given(0), Given(30)>>,
     windows_add_new_args |-> <<Unset(FALSE), Given(FALSE)>>]

YamlEntries ==
    [api_key |-> <<Unset(<<>>), Given(<<"k","2">>), Given(<<"k","3",",","k","4">>)>>,
     log_to_console |-> <<Unset(FALSE), Given(TRUE)>>,
     enabled |-> <<Unset(<<>>), Given(<<"t","r","u","e">>), Given(<<"d","i","s","a","b","l","e","d">>),
                   Given(<<"f","a","l","s","e">>), Given(<<"D","i","s","a","b","l","e","d">>),
                   Given(<<"Y","e","s">>)>>,
     container |-> <<Unset(0)>>,
     container_realtime |-> <<Unset(0)>>,
     process |-> <<Unset(0), Given(30)>>,
     process_realtime |-> <<Unset(0), Given(6)>>,
     blacklist_patterns |-> <<Unset(<<>>), Given(<<<<"^","s","l","e","e","p">>>>), Given(<<<<"(">>>>)>>,
     scrub_args |-> <<Unset(FALSE), Given(FALSE), Given(TRUE)>>,
     custom_sensitive_words |-> <<Unset(<<>>), Given(<<<<"*","a","p","i","_","k","e","y">>>>)>>,
     strip_proc_arguments |-> <<Unset(FALSE), Given(TRUE)>>,
     queue_size |-> <<Unset(0), Given(10)>>,
     max_per_message |-> <<Unset(0), Given(80), Given(500)>>,
     process_dd_url |-> <<Unset(<<>>), Given(<<"h","t","t","p","s",":","/","/","y","a","m","l",".","e","x","a","m","p","l","e",".","c","o","m">>),
                          Given(<<":","/","/","b","a","d">>)>>,
     dd_agent_bin |-> <<Unset(<<>>), Given(<<"/","b","i","n","/","a","g","e","n","t">>)>>,
     args_refresh_interval |-> <<Unset(0), Given(0), Given(40)>>,
     add_new_args |-> <<Unset(FALSE), Given(FALSE)>>,
     log_level |-> <<Unset(<<>>), Given(<<"d","e","b","u","g">>)>>,
     dogstatsd_port |-> <<Unset(0), Given(9225)>>]

EnvEntries ==
    [\* whether the containers of the host can be listed
     canAccessContainers |-> <<Unset(TRUE), Given(TRUE)>>,
     \* what running the hostname command does on the host
     hostnameCommand |-> <<Given([kind |-> "exited", stdout |-> <<"a","g","e","n","t","-","h","o","s","t">> \o <<"\n">>]),
                           Given([kind |-> "launch-failed", stdout |-> <<>>]),
                           Given([kind |-> "hangs", stdout |-> <<>>])>>,
     \* what os.Hostname returns on the host
     osHostname |-> <<Given([name |-> <<"o","s","-","h","o","s","t">>, err |-> FALSE]),
                      Given([name |-> <<>>, err |-> TRUE])>>,
     \* whether the host is a Fargate instance and what GetTaskMetadata returns
     fargate |-> <<Unset([TaskARN |-> <<>>, err |-> FALSE]),
                   Given([TaskARN |-> <<"a","r","n",":","t","1">>, err |-> FALSE]),
                   Given([TaskARN |-> <<>>, err |-> TRUE])>>,
     DD_PROCESS_AGENT_URL |-> <<Unset(<<>>), Given(<<"h","t","t","p","s",":","/","/","e","n","v",".","e","x","a","m","p","l","e",".","c","o","m">>),
                                Given(<<"h","t","t","p","s",":","/","/","b","a","d"," ","h","o","s","t">>)>>,
     DD_HOSTNAME |-> <<Unset(<<>>), Given(<<"g","i","v","e","n","-","h","o","s","t">>)>>,
     DD_PROCESS_AGENT_ENABLED |-> <<Unset(<<>>), Given(<<"t","r","u","e">>), Given(<<"f","a","l","s","e">>),
                                    Given(<<"Y","E","S">>)>>,
     API_KEY |-> <<Unset(<<>>), Given(<<"k","5">>)>>,
     DD_API_KEY |-> <<Unset(<<>>), Given(<<" ","k","6"," ",",","k","7">>)>>,
     LOG_LEVEL |-> <<Unset(<<>>), Given(<<"w","a","r","n","i","n","g">>)>>,
     PROXY_HOST |-> <<Unset(<<>>), Given(<<"e","x","a","m","p","l","e",".","c","o","m">>), Given(<<"b","a","d"," ","h","o","s","t">>)>>,
     PROXY_PORT |-> <<Unset(<<>>)>>,
     PROXY_USER |-> <<Unset(<<>>)>>,
     PROXY_PASSWORD |-> <<Unset(<<>>)>>,
     DD_LOG_LEVEL |-> <<Unset(<<>>), Given(<<"e","r","r","o","r">>)>>,
     DD_LOGS_STDOUT |-> <<Unset(<<>>), Given(<<"y","e","s">>)>>,
     LOG_TO_CONSOLE |-> <<Unset(<<>>), Given(<<"n","o">>)>>,
     DD_SCRUB_ARGS |-> <<Unset(<<>>), Given(<<"f","a","l","s","e">>), Given(<<"t","r","u","e">>)>>,
     DD_CUSTOM_SENSITIVE_WORDS |-> <<Unset(<<>>), Given(<<"*","p","a","s","s","w","o","r","d","*",",","c","o","n","s","u","l","_","t","o","k","e","n",",","*","a","p","i","_","k","e","y">>)>>,
     DD_STRIP_PROCESS_ARGS |-> <<Unset(<<>>), Given(<<"t","r","u","e">>)>>,
     DD_DOGSTATSD_PORT |-> <<Unset(<<>>), Given(<<"9","3","2","5">>), Given(<<"a","b","c">>)>>,
     DD_CONTAINER_CACHE_DURATION |-> <<Unset(<<>>), Given(<<"2","0">>)>>,
     DD_CONNECTIONS_CHECK |-> <<Unset(<<>>), Given(<<"t","r","u","e">>)>>]

\* whether the loader of the structured file presets its fields
LoaderEntries == [presets |-> <<Unset(FALSE), Given(TRUE)>>]

\* the keys of the sources that a scenario may vary, given which files exist
Slots(iniKind, yamlKind) ==
    (IF iniKind = "file" THEN {<<"ini", k>> : k \in DOMAIN IniEntries} ELSE {})
        \cup (IF yamlKind # "nil"
              THEN {<<"yaml", k>> : k \in DOMAIN YamlEntries}
                       \cup {<<"loader", k>> : k \in DOMAIN LoaderEntries}
              ELSE {})
        \cup {<<"env", k>> : k \in DOMAIN EnvEntries}

Entries(slot) ==
    CASE slot[1] = "ini"  -> IniEntries[slot[2]]
      [] slot[1] = "yaml" -> YamlEntries[slot[2]]
      [] slot[1] = "loader" -> LoaderEntries[slot[2]]
      [] slot[1] = "env"  -> EnvEntries[slot[2]]

RECURSIVE SubsetsUpTo(_, _)
\* the subsets of S with at most n elements
SubsetsUpTo(S, n) ==
    IF n = 0 THEN {{}}
    ELSE LET smaller == SubsetsUpTo(S, n - 1)
         IN  smaller \cup {K \cup {x} : K \in smaller, x \in S}

\* the source built from the table of entries, the varied slots K of the
\* source and the entry chosen for each of them
Source(source, table, K, pick) ==
    [k \in DOMAIN table |->
        IF <<source, k>> \in K THEN table[k][pick[<<source, k>>]] ELSE table[k][1]]

\* the choices of an entry for each of the varied slots
Picks(K) ==
    {f \in [K -> UNION {2..Len(Entries(x)) : x \in K}] : \A x \in K : f[x] <= Len(Entries(x))}

(***************************************************************************)
(* Resolution of a configuration                                           *)
(***************************************************************************)
NoCmdline == << <<"-">> >>

\* no call of getHostname or of a proxy function has returned yet
NoReturn == [returned |-> FALSE]

Init ==
    /\ pc = "start"
    /\ \E iniKind \in {"nil", "file"}, yamlKind \in {"nil", "file"} :
         \E K \in SubsetsUpTo(Slots(iniKind, yamlKind), MaxMentioned) :
           \E pick \in Picks(K) :
              /\ agentIni = [nil |-> iniKind = "nil",
                             keys |-> Source("ini", IniEntries, K, pick)]
              /\ agentYaml = [nil |-> yamlKind = "nil",
                              presets |-> Source("loader", LoaderEntries, K, pick).presets.set,
                              keys |-> Source("yaml", YamlEntries, K, pick)]
              /\ env = Source("env", EnvEntries, K, pick)
    /\ cfg = NewDefaultAgentConfig(FALSE).cfg
    /\ scrubber = NewDefaultDataScrubber
    /\ err = FALSE
    /\ adds = 0
    /\ cmdline = NoCmdline
    /\ result = NoCmdline
    /\ added = <<>>
    /\ ret = NoReturn

\* a call of NewAgentConfig that returns a configuration
Resolve ==
    /\ pc = "start"
    /\ \E s \in {mergeSources(agentIni, agentYaml, env)} :
          /\ returnsAfter(s, env)
          /\ ~s.err
          /\ \E out \in {finish(s, env)} :
                /\ cfg' = out.cfg
                /\ scrubber' = out.ds
          /\ err' = FALSE
    /\ pc' = "done"
    /\ UNCHANGED <<agentIni, agentYaml, env, adds, cmdline, result, added, ret>>

\* a call of NewAgentConfig that returns an error
ResolveFails ==
    /\ pc = "start"
    /\ mergeSources(agentIni, agentYaml, env).err
    /\ err' = TRUE
    /\ pc' = "failed"
    /\ UNCHANGED <<agentIni, agentYaml, env, cfg, scrubber, adds, cmdline, result, added, ret>>

Next == Resolve \/ ResolveFails

Spec == Init /\ [][Next]_vars

(***************************************************************************)
(* Use of a DataScrubber: the configuration stages set its fields and add  *)
(* custom words, then a check scrubs a command line with it.               *)
(***************************************************************************)
MaxTokens == 2
MaxAdds == 1

TokenPool ==
    { <<"s","p","i","d","l","y">>, <<"-","-","m","y","p","a","s","s","w","o","r","d","s","=","1","2","3",",","4","5","6">>, <<"-","-","p","a","s","s","w","o","r","d","=","1","2","3",",","4","5","6">>, <<"p","a","s","s","w","o","r","d">>, <<"-","S","e","c","r","e","t">>, <<"a"," ","b">>, <<>> }

ExampleCmdline == 
    <<<<"s","p","i","d","l","y">>,
       <<"-","-","m","y","p","a","s","s","w","o","r","d","s","=","1","2","3",",","4","5","6">>,
       <<"c","o","n","s","u","l","_","t","o","k","e","n">>,
       <<"1","2","3","4">>,
       <<"-","-","d","d","_","a","p","i","_","k","e","y","=","1","2","3","4">>>>
ExampleScrubbed == 
    <<<<"s","p","i","d","l","y">>,
       <<"-","-","m","y","p","a","s","s","w","o","r","d","s","=","*","*","*","*","*","*","*","*">>,
       <<"c","o","n","s","u","l","_","t","o","k","e","n">>,
       <<"*","*","*","*","*","*","*","*">>,
       <<"-","-","d","d","_","a","p","i","_","k","e","y","=","*","*","*","*","*","*","*","*">>>>
ExampleWords == 
    <<<<"*","p","a","s","s","w","o","r","d","*">>,
       <<"c","o","n","s","u","l","_","t","o","k","e","n">>,
       <<"*","a","p","i","_","k","e","y">>>>

WordBatches ==
    { ExampleWords,
      ExampleWords \o ExampleWords,
      <<<<"a","*","*","b">>, <<"*">>, <<"x","-","y">>, <<"*","c","r","e","t">>>>,
      <<<<"a","b","c">>, <<"a","*","*","b">>, <<"x"," ","y">>, <<"*">>, <<"b","*","r">>, <<"*","*">>>>,
      << <<>> >> }

RECURSIVE SeqsUpTo(_, _)
\* the sequences of at most n elements of S
SeqsUpTo(S, n) ==
    IF n = 0 THEN {<<>>}
    ELSE LET shorter == SeqsUpTo(S, n - 1)
         IN  shorter \cup {Append(q, x) : q \in shorter, x \in S}

\* a command line with two sensitive options in a row
TwoOptionsCmdline == <<<<"a","g","e","n","t">>, <<"-","-","p","a","s","s","w","o","r","d">>, <<"-","-","s","e","c","r","e","t">>, <<"x">>>>

Cmdlines == SeqsUpTo(TokenPool, MaxTokens) \cup {ExampleCmdline, TwoOptionsCmdline}

InitScrub ==
    /\ pc = "configure"
    /\ agentIni = [nil |-> TRUE, keys |-> Source("ini", IniEntries, {}, <<>>)]
    /\ agentYaml = [nil |-> TRUE, presets |-> FALSE,
                    keys |-> Source("yaml", YamlEntries, {}, <<>>)]
    /\ env = Source("env", EnvEntries, {}, <<>>)
    /\ cfg = NewDefaultAgentConfig(FALSE).cfg
    /\ scrubber = NewDefaultDataScrubber
    /\ err = FALSE
    /\ adds = 0
    /\ cmdline \in Cmdlines
    /\ result = NoCmdline
    /\ added = <<>>
    /\ ret = NoReturn

\* an assignment to Scrubber.Enabled by a configuration stage
SetEnabled ==
    /\ pc = "configure"
    /\ \E b \in BOOLEAN : scrubber' = [scrubber EXCEPT !.Enabled = b]
    /\ UNCHANGED <<pc, agentIni, agentYaml, env, cfg, err, adds, cmdline, result, added, ret>>

\* an assignment to Scrubber.StripAllArguments by a configuration stage
SetStripAllArguments ==
    /\ pc = "configure"
    /\ \E b \in BOOLEAN : scrubber' = [scrubber EXCEPT !.StripAllArguments = b]
    /\ UNCHANGED <<pc, agentIni, agentYaml, env, cfg, err, adds, cmdline, result, added, ret>>

AddWords ==
    /\ pc = "configure"
    /\ adds < MaxAdds
    /\ \E batch \in WordBatches :
          /\ scrubber' = AddCustomSensitiveWords(scrubber, batch)
          /\ added' = batch
    /\ adds' = adds + 1
    /\ UNCHANGED <<pc, agentIni, agentYaml, env, cfg, err, cmdline, result, ret>>

Scrub ==
    /\ pc = "configure"
    /\ result' = ScrubCmdline(scrubber, cmdline)
    /\ pc' = "scrubbed"
    /\ UNCHANGED <<agentIni, agentYaml, env, cfg, scrubber, err, adds, cmdline, added, ret>>

NextScrub == SetEnabled \/ SetStripAllArguments \/ AddWords \/ Scrub

SpecScrub == InitScrub /\ [][NextScrub]_vars

(***************************************************************************)
(* Proxy selection: NewAgentConfig reads the proxy settings of the legacy   *)
(* file, mergeEnvironmentVariables those of the environment, and the HTTP   *)
(* transport calls the resulting selector for each request.                 *)
(***************************************************************************)
\* the proxy settings tried for the legacy file and for the environment
ProxyIniEntries ==
    [proxy_host |-> <<Unset(<<>>), Given(<<"m","y","h","o","s","t">>), Given(<<"h","t","t","p","s",":","/","/","m","y","h","o","s","t">>), Given(<<"h","t","t","p",":","/","/","m","y","h","o","s","t">>),
                      Given(<<"h","t","t","p",":","/","/">>), Given(<<"m","y"," ","h","o","s","t">>)>>,
     proxy_port |-> <<Unset(0), Given(3129), Given(80)>>,
     proxy_user |-> <<Unset(<<>>), Given(<<"a","a","d","i","t","y","a">>)>>,
     proxy_password |-> <<Unset(<<>>), Given(<<"p","a","s","s","w","o","r","d","_","1","2">>), Given(<<"/",":","@">>)>>]
ProxyEnvEntries ==
    [PROXY_HOST |-> <<Unset(<<>>), Given(<<"e","x","a","m","p","l","e",".","c","o","m">>), Given(<<"h","t","t","p","s",":","/","/","e","x","a","m","p","l","e",".","c","o","m">>),
                      Given(<<"b","a","d"," ","h","o","s","t">>)>>,
     PROXY_PORT |-> <<Unset(<<>>), Given(<<"1","2","3","4">>), Given(<<"4","5","6","7">>)>>,
     PROXY_USER |-> <<Unset(<<>>), Given(<<"f","o","o">>)>>,
     PROXY_PASSWORD |-> <<Unset(<<>>), Given(<<"b","a","r">>)>>]

Requests == {<<"G","E","T">>, <<"P","O","S","T">>}

InitProxy ==
    /\ pc = "proxy-start"
    /\ \E h \in DOMAIN ProxyIniEntries.proxy_host, p \in DOMAIN ProxyIniEntries.proxy_port,
          u \in DOMAIN ProxyIniEntries.proxy_user, w \in DOMAIN ProxyIniEntries.proxy_password :
          agentIni = [nil |-> FALSE,
                      keys |-> [Source("ini", IniEntries, {}, <<>>) EXCEPT
                                   !.proxy_host = ProxyIniEntries.proxy_host[h],
                                   !.proxy_port = ProxyIniEntries.proxy_port[p],
                                   !.proxy_user = ProxyIniEntries.proxy_user[u],
                                   !.proxy_password = ProxyIniEntries.proxy_password[w]]]
    /\ agentYaml = [nil |-> TRUE, presets |-> FALSE,
                    keys |-> Source("yaml", YamlEntries, {}, <<>>)]
    /\ \E h \in DOMAIN ProxyEnvEntries.PROXY_HOST, p \in DOMAIN ProxyEnvEntries.PROXY_PORT,
          u \in DOMAIN ProxyEnvEntries.PROXY_USER, w \in DOMAIN ProxyEnvEntries.PROXY_PASSWORD :
          env = [Source("env", EnvEntries, {}, <<>>) EXCEPT
                    !.PROXY_HOST = ProxyEnvEntries.PROXY_HOST[h],
                    !.PROXY_PORT = ProxyEnvEntries.PROXY_PORT[p],
                    !.PROXY_USER = ProxyEnvEntries.PROXY_USER[u],
                    !.PROXY_PASSWORD = ProxyEnvEntries.PROXY_PASSWORD[w]]
    /\ cfg = NewDefaultAgentConfig(FALSE).cfg
    /\ scrubber = NewDefaultDataScrubber
    /\ err = FALSE
    /\ adds = 0
    /\ cmdline = NoCmdline
    /\ result = NoCmdline
    /\ added = <<>>
    /\ ret = NoReturn

\* cfg.proxy, err = getProxySettings(section) in NewAgentConfig
ReadLegacyProxy ==
    /\ pc = "proxy-start"
    /\ LET out == getProxySettings(agentIni.keys)
       IN  /\ cfg' = [cfg EXCEPT !.proxy = out.proxy]
           /\ err' = out.err
    /\ pc' = "proxy-ini"
    /\ UNCHANGED <<agentIni, agentYaml, env, scrubber, adds, cmdline, result, added, ret>>

\* the proxy settings of mergeEnvironmentVariables
ReadEnvProxy ==
    /\ pc = "proxy-ini"
    /\ LET out == proxyFromEnv(cfg.proxy, env)
       IN  /\ cfg' = [cfg EXCEPT !.proxy = IF out.err THEN NilProxy ELSE out.proxy]
           /\ err' = out.err
    /\ pc' = "proxy-env"
    /\ UNCHANGED <<agentIni, agentYaml, env, scrubber, adds, cmdline, result, added, ret>>

\* the transport asks the selector for the proxy of a request
SelectProxy ==
    /\ pc = "proxy-env"
    /\ ~cfg.proxy.nil
    /\ \E request \in Requests :
          LET out == CallProxyFunc(cfg.proxy, request)
          IN  ret' = [returned |-> TRUE, request |-> request, u |-> out.u, err |-> out.err]
    /\ pc' = "proxy-called"
    /\ UNCHANGED <<agentIni, agentYaml, env, cfg, scrubber, err, adds, cmdline, result, added>>

NextProxy == ReadLegacyProxy \/ ReadEnvProxy \/ SelectProxy

SpecProxy == InitProxy /\ [][NextProxy]_vars

(***************************************************************************)
(* Host name: getHostname runs the hostname command of the agent and waits *)
(* for it, then falls back to os.Hostname.                                 *)
(***************************************************************************)
\* what the hostname command and os.Hostname may do on the host
HostnameEntries ==
    [hostnameCommand |-> <<Given([kind |-> "exited", stdout |-> <<"a","g","e","n","t","-","h","o","s","t">> \o <<"\n">>]),
                           Given([kind |-> "launch-failed", stdout |-> <<>>]),
                           Given([kind |-> "exit-nonzero", stdout |-> <<"p","a","r","t","i","a","l">>]),
                           Given([kind |-> "exited", stdout |-> <<" ","\n">>]),
                           Given([kind |-> "exited", stdout |-> <<>>]),
                           Given([kind |-> "exited", stdout |-> <<" ">> \o <<"h","o","s","t","-","b">> \o <<" ","\n">>]),
                           Given([kind |-> "hangs", stdout |-> <<>>])>>,
     osHostname |-> <<Given([name |-> <<"o","s","-","h","o","s","t">>, err |-> FALSE]),
                      Given([name |-> <<>>, err |-> TRUE]),
                      Given([name |-> <<"b","o","x">>, err |-> FALSE])>>]

InitHostname ==
    /\ pc = "hostname-start"
    /\ agentIni = [nil |-> TRUE, keys |-> Source("ini", IniEntries, {}, <<>>)]
    /\ agentYaml = [nil |-> TRUE, presets |-> FALSE,
                    keys |-> Source("yaml", YamlEntries, {}, <<>>)]
    /\ \E c \in DOMAIN HostnameEntries.hostnameCommand, o \in DOMAIN HostnameEntries.osHostname :
          env = [Source("env", EnvEntries, {}, <<>>) EXCEPT
                    !.hostnameCommand = HostnameEntries.hostnameCommand[c],
                    !.osHostname = HostnameEntries.osHostname[o]]
    /\ \E bin \in {<<>>, defaultDDAgentBin} :
          cfg = [NewDefaultAgentConfig(FALSE).cfg EXCEPT !.DDAgentBin = bin]
    /\ scrubber = NewDefaultDataScrubber
    /\ err = FALSE
    /\ adds = 0
    /\ cmdline = NoCmdline
    /\ result = NoCmdline
    /\ added = <<>>
    /\ ret = NoReturn

\* getHostname up to cmd.Run: the command is built and started
RunHostnameCommand ==
    /\ pc = "hostname-start"
    /\ ret' = [returned |-> FALSE, cmd |-> hostnameCommand(cfg.DDAgentPy, cfg.DDAgentBin)]
    /\ pc' = "hostname-running"
    /\ UNCHANGED <<agentIni, agentYaml, env, cfg, scrubber, err, adds, cmdline, result, added>>

\* cmd.Run returns and getHostname returns after it
HostnameReturns ==
    /\ pc = "hostname-running"
    /\ LET out == getHostname(cfg.DDAgentPy, cfg.DDAgentBin, env)
       IN  /\ out.returns
           /\ ret' = [returned |-> TRUE, cmd |-> ret.cmd, v |-> out.v, err |-> out.err]
    /\ pc' = "hostname-done"
    /\ UNCHANGED <<agentIni, agentYaml, env, cfg, scrubber, err, adds, cmdline, result, added>>

NextHostname == RunHostnameCommand \/ HostnameReturns

SpecHostname == InitHostname /\ [][NextHostname]_vars

\* the scheduler runs the process of the agent whenever it can take a step
SpecHostnameFair == SpecHostname /\ WF_vars(NextHostname)

(***************************************************************************)
(* Properties of the scrubber                                              *)
(***************************************************************************)
SpaceStr == <<" ">>

\* some pattern of the scrubber locates a key/delimiter/value triple in s
SomeMatch(ds, s) ==
    \E k \in DOMAIN ds.SensitivePatterns :
        \E i \in 1..Len(s) : MatchAt(ds.SensitivePatterns[k], s, i).found

RECURSIVE MaskedCopy(_, _, _, _)
\* out[j..] is in[i..] in which some values (runs of non-blank characters
\* that follow a blank or an equals sign and reach the next blank) are each
\* replaced by the mask, every other character being kept
MaskedCopy(in, i, out, j) ==
    IF i > Len(in)
    THEN \/ j > Len(out)
         \/ /\ i > 1
            /\ in[i - 1] \in {" ", "="}
            /\ Slice(out, j, Len(out) + 1) = Mask
    ELSE \/ /\ j <= Len(out)
            /\ in[i] = out[j]
            /\ MaskedCopy(in, i + 1, out, j + 1)
         \/ /\ i > 1
            /\ in[i - 1] \in {" ", "="}
            /\ j + Len(Mask) - 1 <= Len(out)
            /\ Slice(out, j, j + Len(Mask)) = Mask
            /\ MaskedCopy(in, i + RunLength(in, i, NonSpace), out, j + Len(Mask))
         \/ /\ i > 1
            /\ in[i - 1] \in {" ", "="}
            /\ IsSpace(in[i])
            /\ j + Len(Mask) - 1 <= Len(out)
            /\ Slice(out, j, j + Len(Mask)) = Mask
            /\ MaskedCopy(in, i, out, j + Len(Mask))

\* C1: a disabled scrubber, whatever its patterns, returns the command line
\* it was given
C1_DisabledIsIdentity ==
    (pc = "scrubbed" /\ ~scrubber.Enabled) => result = cmdline

C1_Witness ==
    /\ pc = "scrubbed"
    /\ ~scrubber.Enabled
    /\ adds > 0
    /\ SomeMatch(scrubber, Join(cmdline, SpaceStr))
    /\ result = cmdline

\* C2: with StripAllArguments set, scrubbing a non-empty command line
\* returns only its first token
C2_StripReturnsFirstToken ==
    (pc = "scrubbed" /\ scrubber.StripAllArguments /\ Len(cmdline) > 0)
        => result = <<cmdline[1]>>

OnlyDefaultWords == scrubber.SensitivePatterns = NewDefaultDataScrubber.SensitivePatterns

\* C4 as stated: with the default words only, the flag token of
\* [spidly, --mypasswords=123,456] becomes --mypasswords=********
C4_DefaultWordsMaskMypasswords ==
    (pc = "scrubbed" /\ scrubber.Enabled /\ OnlyDefaultWords
        /\ cmdline = <<<<"s","p","i","d","l","y">>, <<"-","-","m","y","p","a","s","s","w","o","r","d","s","=","1","2","3",",","4","5","6">>>>)
        => result[2] = <<"-","-","m","y","p","a","s","s","w","o","r","d","s","=","*","*","*","*","*","*","*","*">>

\* C4 amended: with the default words only, [spidly, --mypasswords=123,456]
\* is returned unchanged, and the flag token of [spidly, --password=123,456]
\* becomes --password=********
C4_DefaultWordsMaskPassword ==
    (pc = "scrubbed" /\ scrubber.Enabled /\ OnlyDefaultWords) =>
        /\ cmdline = <<<<"s","p","i","d","l","y">>, <<"-","-","m","y","p","a","s","s","w","o","r","d","s","=","1","2","3",",","4","5","6">>>> => result = cmdline
        /\ cmdline = <<<<"s","p","i","d","l","y">>, <<"-","-","p","a","s","s","w","o","r","d","=","1","2","3",",","4","5","6">>>>
             => result = <<<<"s","p","i","d","l","y">>, <<"-","-","p","a","s","s","w","o","r","d","=","*","*","*","*","*","*","*","*">>>>

C4_Witness ==
    /\ pc = "scrubbed"
    /\ scrubber.Enabled
    /\ OnlyDefaultWords
    /\ cmdline = <<<<"s","p","i","d","l","y">>, <<"-","-","m","y","p","a","s","s","w","o","r","d","s","=","1","2","3",",","4","5","6">>>>
    /\ result = cmdline

\* C5: an enabled scrubber none of whose patterns locates a triple in the
\* joined command line returns the tokens it was given
C5_NoMatchIsIdentity ==
    (pc = "scrubbed" /\ scrubber.Enabled /\ ~SomeMatch(scrubber, Join(cmdline, SpaceStr)))
        => result = cmdline

C5_Witness ==
    /\ pc = "scrubbed"
    /\ scrubber.Enabled
    /\ ~SomeMatch(scrubber, Join(cmdline, SpaceStr))
    /\ Split(Join(cmdline, SpaceStr), " ") # cmdline
    /\ result = cmdline

\* a specification that compileStringsToRegex accepts: only letters,
\* digits, underscores and wildcards, not the bare wildcard, no two
\* consecutive wildcards
Accepted(word) ==
    /\ \A i \in DOMAIN word :
          word[i] \in Range(UpperChars) \cup Range(LowerChars) \cup Range(DigitChars) \cup {"_", "*"}
    /\ word # <<"*">>
    /\ ~\E i \in 1..(Len(word) - 1) : word[i] = "*" /\ word[i + 1] = "*"

\* C14: the patterns appended for a batch of words are one pattern for
\* each accepted word, in the order of the words, whatever words are
\* rejected before, between or after them
C14_RejectedWordsDropped ==
    adds >= 1 =>
        LET kept == SelectSeq(added, Accepted)
            patterns == scrubber.SensitivePatterns
            before == Len(patterns) - Len(kept)
        IN  /\ before >= Len(NewDefaultDataScrubber.SensitivePatterns)
            /\ adds = 1 => before = Len(NewDefaultDataScrubber.SensitivePatterns)
            /\ \A i \in DOMAIN kept :
                  /\ Len(compileStringsToRegex(<<kept[i]>>)) = 1
                  /\ patterns[before + i] = compileStringsToRegex(<<kept[i]>>)[1]
            /\ \A i \in DOMAIN added :
                  ~Accepted(added[i]) => compileStringsToRegex(<<added[i]>>) = <<>>

C14_Witness ==
    /\ adds = 1
    /\ Len(added) = 6
    /\ ~Accepted(added[2])
    /\ Len(scrubber.SensitivePatterns) = Len(NewDefaultDataScrubber.SensitivePatterns) + 2
    /\ scrubber.SensitivePatterns[Len(scrubber.SensitivePatterns)]
          = <<[t |-> "lit", c |-> "b"], [t |-> "except", c |-> "r"], [t |-> "lit", c |-> "r"]>>

(***************************************************************************)
(* Properties of the proxy selection                                       *)
(***************************************************************************)
SchemeMark == <<":","/","/">>

\* the host setting without its scheme:// prefix, and the scheme it names
HostOf(v) ==
    IF \E k \in 0..(Len(v) - 3) : SubSeq(v, k + 1, k + 3) = SchemeMark
    THEN LET k == CHOOSE j \in 0..(Len(v) - 3) :
                     /\ SubSeq(v, j + 1, j + 3) = SchemeMark
                     /\ \A l \in 0..(j - 1) : SubSeq(v, l + 1, l + 3) # SchemeMark
         IN  SubSeq(v, k + 4, Len(v))
    ELSE v
SchemeOf(v) ==
    IF HostOf(v) = v THEN <<"h","t","t","p">>
    ELSE SubSeq(v, 1, Len(v) - Len(HostOf(v)) - 3)

\* the proxy settings of the legacy file and of the environment:
\* the host setting, the text of the port, the user and the password
LegacyProxySettings ==
    [host |-> IF agentIni.keys.proxy_host.set THEN agentIni.keys.proxy_host.v ELSE <<>>,
     port |-> IF agentIni.keys.proxy_port.set
              THEN (CASE agentIni.keys.proxy_port.v = 3129 -> <<"3","1","2","9">>
                      [] agentIni.keys.proxy_port.v = 80 -> <<"8","0">>)
              ELSE <<"3","1","2","8">>,
     user |-> IF agentIni.keys.proxy_user.set THEN agentIni.keys.proxy_user.v ELSE <<>>,
     password |-> IF agentIni.keys.proxy_password.set
                  THEN agentIni.keys.proxy_password.v ELSE <<>>]
EnvProxySettings ==
    [host |-> IF env.PROXY_HOST.set THEN env.PROXY_HOST.v ELSE <<>>,
     port |-> IF env.PROXY_PORT.set THEN env.PROXY_PORT.v ELSE <<"3","1","2","8">>,
     user |-> IF env.PROXY_USER.set THEN env.PROXY_USER.v ELSE <<>>,
     password |-> IF env.PROXY_PASSWORD.set THEN env.PROXY_PASSWORD.v ELSE <<>>]

\* a host name that a URL can hold
PlainHost(h) == \A k \in DOMAIN h : h[k] \notin {" ", "/", "@", ":"}

\* u is scheme://[user[:password]@]host:port for the settings st
IsProxyURL(u, st) ==
    /\ ~u.nil
    /\ u.Scheme = SchemeOf(st.host)
    /\ u.Host = HostOf(st.host) \o <<":">> \o st.port
    /\ u.Path = <<>>
    /\ u.Opaque = <<>>
    /\ u.User.nil <=> st.user = <<>>
    /\ st.user # <<>> =>
          /\ u.User.Username = st.user
          /\ u.User.PasswordSet <=> st.password # <<>>
          /\ u.User.Password = st.password
    /\ (\A k \in DOMAIN st.password : st.password[k] \notin {"/", ":", "@"}) =>
          URLString(u) = SchemeOf(st.host) \o SchemeMark
                            \o (IF st.user = <<>> THEN <<>>
                                ELSE st.user
                                        \o (IF st.password = <<>> THEN <<>>
                                            ELSE <<":">> \o st.password)
                                        \o <<"@">>)
                            \o HostOf(st.host) \o <<":">> \o st.port

\* the selector that the settings st give, when there was the selector before
ProxyAsSet(proxy, failed, st, before) ==
    /\ HostOf(st.host) = <<>> => (proxy = before /\ ~failed)
    /\ (HostOf(st.host) # <<>> /\ PlainHost(HostOf(st.host))) =>
          (~proxy.nil /\ ~failed /\ IsProxyURL(proxy.fixedURL, st))

\* C15: a non-empty proxy host of the legacy file or of the environment
\* gives a selector that returns, for every request, the URL
\* scheme://[user[:password]@]host:port, where the scheme is http unless the
\* host has a scheme:// prefix (then stripped from the host), the port is
\* 3128 unless one is supplied and the user-info is there only when a user
\* is supplied; an empty host gives no proxy and no error
C15_ProxyURL ==
    /\ pc = "proxy-ini" => ProxyAsSet(cfg.proxy, err, LegacyProxySettings, NilProxy)
    /\ pc = "proxy-env" =>
          /\ HostOf(EnvProxySettings.host) # <<>> =>
                ProxyAsSet(cfg.proxy, err, EnvProxySettings, NilProxy)
          /\ HostOf(EnvProxySettings.host) = <<>> =>
                (~err /\ ProxyAsSet(cfg.proxy, FALSE, LegacyProxySettings, NilProxy))
    /\ pc = "proxy-called" => (~ret.err /\ ret.u = cfg.proxy.fixedURL)

C15_Witness ==
    /\ pc = "proxy-called"
    /\ ret.request = <<"P","O","S","T">>
    /\ env.PROXY_HOST.set /\ env.PROXY_HOST.v = <<"h","t","t","p","s",":","/","/","e","x","a","m","p","l","e",".","c","o","m">>
    /\ env.PROXY_PORT.set /\ env.PROXY_USER.set /\ env.PROXY_PASSWORD.set
    /\ agentIni.keys.proxy_host.set
    /\ URLString(ret.u) = <<"h","t","t","p","s",":","/","/","f","o","o",":","b","a","r","@","e","x","a","m","p","l","e",".","c","o","m",":","4","5","6","7">>

(***************************************************************************)
(* Properties of the host name                                             *)
(***************************************************************************)
OnlyBlanks(s) == \A k \in DOMAIN s : s[k] \in {" ", "\t", "\n", "\r"}

\* t is s without the blanks at its two ends
Trimmed(t, s) ==
    /\ t # <<>>
    /\ t[1] \notin {" ", "\t", "\n", "\r"}
    /\ t[Len(t)] \notin {" ", "\t", "\n", "\r"}
    /\ \E k \in 0..(Len(s) - Len(t)) :
          /\ SubSeq(s, k + 1, k + Len(t)) = t
          /\ OnlyBlanks(SubSeq(s, 1, k))
          /\ OnlyBlanks(SubSeq(s, k + Len(t) + 1, Len(s)))

\* the hostname command did not give a host name: it could not be started,
\* exited with a non-zero status or printed only blanks
ToolFailed ==
    \/ env.hostnameCommand.v.kind \in {"launch-failed", "exit-nonzero"}
    \/ OnlyBlanks(env.hostnameCommand.v.stdout)

C17_HostnameTerminates == <>(ret.returned)

(***************************************************************************)
(* Properties of the resolution                                            *)
(***************************************************************************)
IniRead == ~agentIni.nil /\ agentIni.keys["Main"].set
YamlRead == ~agentYaml.nil

\* the configuration before and after the merge of the structured file
BeforeYaml ==
    LET s0 == NewDefaultAgentConfig(env["canAccessContainers"].set)
    IN  IF IniRead THEN mergeIniConfig(s0, agentIni.keys) ELSE Succeeded(s0.cfg, s0.ds)

AfterYaml == mergeYamlConfig(BeforeYaml, YamlAgentConfig(agentYaml.keys, agentYaml.presets))

IniSets(key) == IniRead /\ agentIni.keys[key].set
YamlSets(key) == YamlRead /\ agentYaml.keys[key].set
EnvSets(name) == env[name].set

\* C6: every field has the value of the last of legacy file, structured
\* file and environment that sets it, and the default if none does
C6_Precedence ==
    pc = "done" =>
        /\ cfg.QueueSize = IF YamlSets("queue_size") THEN agentYaml.keys["queue_size"].v
                           ELSE IF IniSets("queue_size") THEN agentIni.keys["queue_size"].v
                           ELSE NewDefaultAgentConfig(FALSE).cfg.QueueSize
        /\ cfg.ContainerCacheDuration =
             IF EnvSets("DD_CONTAINER_CACHE_DURATION")
             THEN Atoi(env["DD_CONTAINER_CACHE_DURATION"].v).v
             ELSE IF IniSets("container_cache_duration")
                  THEN agentIni.keys["container_cache_duration"].v
                  ELSE NewDefaultAgentConfig(FALSE).cfg.ContainerCacheDuration
        /\ (~EnvSets("API_KEY") /\ ~EnvSets("DD_API_KEY") /\ ~YamlSets("api_key")) =>
              cfg.APIKey = IF IniSets("api_key") THEN Split(agentIni.keys["api_key"].v, ",")[1]
                           ELSE NewDefaultAgentConfig(FALSE).cfg.APIKey

\* C7: a structured file that omits api_key, blacklist_patterns,
\* dd_agent_bin, log_level or dogstatsd_port leaves APIKey, Blacklist,
\* DDAgentBin, LogLevel and StatsdPort as they were before mergeYamlConfig
C7_YamlKeepsUnmentioned ==
    (pc = "done" /\ YamlRead) =>
        /\ ~YamlSets("api_key") => AfterYaml.cfg.APIKey = BeforeYaml.cfg.APIKey
        /\ ~YamlSets("blacklist_patterns") => AfterYaml.cfg.Blacklist = BeforeYaml.cfg.Blacklist
        /\ ~YamlSets("dd_agent_bin") => AfterYaml.cfg.DDAgentBin = BeforeYaml.cfg.DDAgentBin
        /\ ~YamlSets("log_level") => AfterYaml.cfg.LogLevel = BeforeYaml.cfg.LogLevel
        /\ ~YamlSets("dogstatsd_port") => AfterYaml.cfg.StatsdPort = BeforeYaml.cfg.StatsdPort

\* C8: a resolved configuration never has MaxPerMessage above 100
C8_MaxPerMessageCapped ==
    pc = "done" => cfg.MaxPerMessage <= 100

C8_Witness ==
    /\ pc = "done"
    /\ IniSets("proc_limit")
    /\ agentIni.keys["proc_limit"].v > 100
    /\ cfg.MaxPerMessage = 100

\* C9: when the last file that sets the per-message limit gives a value
\* above 100, the resolved MaxPerMessage is 100
C9_AboveCeilingGivesCeiling ==
    pc = "done" =>
        /\ (YamlSets("max_per_message") /\ agentYaml.keys["max_per_message"].v > 100)
              => cfg.MaxPerMessage = 100
        /\ (~YamlSets("max_per_message") /\ IniSets("proc_limit")
              /\ agentIni.keys["proc_limit"].v > 100)
              => cfg.MaxPerMessage = 100

\* the refresh interval given by the last file that mentions it
LastArgsRefreshInterval ==
    IF YamlSets("args_refresh_interval") THEN agentYaml.keys["args_refresh_interval"]
    ELSE IF IniSets("windows_args_refresh_interval")
         THEN agentIni.keys["windows_args_refresh_interval"]
         ELSE Unset(0)

\* C10: Windows.ArgsRefreshInterval of a resolved configuration is not 0;
\* it is -1 when the interval supplied is 0 and the supplied interval
\* otherwise
C10_ZeroIntervalDisables ==
    pc = "done" =>
        /\ cfg.Windows.ArgsRefreshInterval # 0
        /\ LastArgsRefreshInterval.set =>
              cfg.Windows.ArgsRefreshInterval
                 = IF LastArgsRefreshInterval.v = 0 THEN -1 ELSE LastArgsRefreshInterval.v

\* the checks the resolver knows
KnownChecks == {"process", "rtprocess", "container", "rtcontainer", "connections"}

\* the key of the structured file that overrides the interval of a check
YamlIntervalKey(check) ==
    CASE check = "container"   -> "container"
      [] check = "rtcontainer" -> "container_realtime"
      [] check = "process"     -> "process"
      [] check = "rtprocess"   -> "process_realtime"
      [] OTHER                 -> "none"

\* C11: a resolved configuration has an interval for every known check,
\* and the interval of a check is the one the structured file gives for
\* it, else the one the legacy file gives for it, else the default: an
\* override of one check changes no other check
C11_IntervalOverrides ==
    pc = "done" =>
        /\ DOMAIN cfg.CheckIntervals = KnownChecks
        /\ \A check \in KnownChecks :
              cfg.CheckIntervals[check]
                 = IF YamlIntervalKey(check) # "none" /\ YamlSets(YamlIntervalKey(check))
                   THEN agentYaml.keys[YamlIntervalKey(check)].v
                   ELSE IF IniSets(check \o "_interval")
                        THEN agentIni.keys[check \o "_interval"].v
                        ELSE NewDefaultAgentConfig(FALSE).cfg.CheckIntervals[check]

\* the configuration before the merge of the environment
BeforeEnv == IF YamlRead THEN AfterYaml ELSE BeforeYaml

\* s is the lower-case word w written in any letter case
IsWordAnyCase(s, w) ==
    /\ Len(s) = Len(w)
    /\ \A i \in DOMAIN w :
          \/ s[i] = w[i]
          \/ \E j \in DOMAIN LowerChars : LowerChars[j] = w[i] /\ UpperChars[j] = s[i]

Affirmative(s) ==
    \E w \in {<<"t","r","u","e">>, <<"y","e","s">>, <<"1">>} : IsWordAnyCase(s, w)

\* the flag after a stage that read value v for it
FlagAfter(previous, v) == IF v = <<>> THEN previous ELSE Affirmative(v)

\* the values that the resolution passed to isAffirmative for the flags
FlagValues ==
    {Getenv(env, "DD_PROCESS_AGENT_ENABLED"), Getenv(env, "DD_SCRUB_ARGS"),
     Get(agentIni.keys, "process_agent_enabled").v}

\* C12: isAffirmative fails on the empty string, is true on any letter
\* case of true, yes and 1 and false on every other string; the flags
\* Enabled (legacy process_agent_enabled, DD_PROCESS_AGENT_ENABLED) and
\* Scrubber.Enabled (DD_SCRUB_ARGS) keep their value on the empty string
\* and otherwise become the result
C12_IsAffirmative ==
    pc = "done" =>
        /\ \A v \in FlagValues :
              isAffirmative(v) = [ok |-> v # <<>> /\ Affirmative(v), err |-> v = <<>>]
        /\ cfg.Enabled = FlagAfter(BeforeEnv.cfg.Enabled, Getenv(env, "DD_PROCESS_AGENT_ENABLED"))
        /\ scrubber.Enabled = FlagAfter(BeforeEnv.ds.Enabled, Getenv(env, "DD_SCRUB_ARGS"))
        /\ IniRead =>
              BeforeYaml.cfg.Enabled
                 = FlagAfter(NewDefaultAgentConfig(env["canAccessContainers"].set).cfg.Enabled,
                             Get(agentIni.keys, "process_agent_enabled").v)

C12_Witness ==
    /\ pc = "done"
    /\ Getenv(env, "DD_PROCESS_AGENT_ENABLED") = <<"Y","E","S">>
    /\ ~BeforeEnv.cfg.Enabled
    /\ cfg.Enabled
    /\ cfg.EnabledChecks = processChecks

\* C13: in the structured file an affirmative process_config.enabled gives
\* Enabled with the process checks, "disabled" in any letter case gives
\* not Enabled, any other non-empty value gives Enabled with the container
\* checks only, and an empty or absent value leaves Enabled and
\* EnabledChecks as the earlier stages set them (when the environment does
\* not set them afterwards)
C13_YamlEnabledThreeWay ==
    (/\ pc = "done"
     /\ YamlRead
     /\ Getenv(env, "DD_PROCESS_AGENT_ENABLED") = <<>>
     /\ Getenv(env, "DD_CONNECTIONS_CHECK") = <<>>) =>
        LET v == GetDefault(agentYaml.keys, "enabled", <<>>)
        IN  IF v = <<>>
            THEN /\ cfg.Enabled = BeforeYaml.cfg.Enabled
                 /\ cfg.EnabledChecks = BeforeYaml.cfg.EnabledChecks
            ELSE IF Affirmative(v)
                 THEN cfg.Enabled /\ cfg.EnabledChecks = <<"process", "rtprocess">>
                 ELSE IF IsWordAnyCase(v, <<"d","i","s","a","b","l","e","d">>)
                      THEN ~cfg.Enabled
                      ELSE cfg.Enabled /\ cfg.EnabledChecks = <<"container", "rtcontainer">>

C13_Witness ==
    /\ pc = "done"
    /\ YamlSets("enabled")
    /\ agentYaml.keys["enabled"].v = <<"D","i","s","a","b","l","e","d">>
    /\ BeforeYaml.cfg.Enabled
    /\ ~cfg.Enabled

\* C18: a configuration returned without error has a non-empty HostName,
\* which is the value of DD_HOSTNAME when that is given; a failure of the
\* last fallback is returned as the error of the resolution
C18_HostNameNonEmpty ==
    pc = "done" =>
        /\ cfg.HostName # <<>>
        /\ env.DD_HOSTNAME.set => cfg.HostName = env.DD_HOSTNAME.v

\* the values of the scenarios that are not URLs, and the proxy hosts that
\* cannot be made into one
MalformedURLs == {<<"h","t","t","p","s",":","/","/","b","a","d"," ","h","o","s","t">>, <<":","/","/","b","a","d">>}
MalformedHosts == {<<"b","a","d"," ","h","o","s","t">>, <<"m","y"," ","h","o","s","t">>}

\* C19: a malformed endpoint or proxy setting in one source does not make
\* the resolution fail: it fails only when a source cannot be read, and in
\* the configuration it returns the field that the environment gave a
\* malformed value for is as the previous stages left it
C19_MalformedFieldKept ==
    /\ pc = "failed" => (IniRead /\ ~agentIni.keys.api_key.set)
    /\ (pc = "done" /\ env.DD_PROCESS_AGENT_URL.set
            /\ env.DD_PROCESS_AGENT_URL.v \in MalformedURLs)
          => cfg.APIEndpoint = BeforeEnv.cfg.APIEndpoint
    /\ (pc = "done" /\ env.PROXY_HOST.set /\ env.PROXY_HOST.v \in MalformedHosts)
          => cfg.proxy = BeforeEnv.cfg.proxy
    /\ (pc = "done" /\ IniRead /\ agentIni.keys.proxy_host.set
            /\ agentIni.keys.proxy_host.v \in MalformedHosts)
          => BeforeYaml.cfg.proxy = NilProxy

\* s up to its first comma
FirstOfList(s) ==
    IF \E k \in DOMAIN s : s[k] = ","
    THEN SubSeq(s, 1, (CHOOSE k \in DOMAIN s :
                          s[k] = "," /\ \A j \in 1..(k - 1) : s[j] # ",") - 1)
    ELSE s

\* C20: the resolved APIKey is the first element of the comma-separated
\* list of the source that supplied it and so holds no comma; the legacy
\* value "foo, bar " alone resolves to "foo"
C20_APIKeyFirstOfList ==
    pc = "done" =>
        /\ \A k \in DOMAIN cfg.APIKey : cfg.APIKey[k] # ","
        /\ (IniRead /\ agentIni.keys.api_key.set /\ ~YamlRead
               /\ ~env.API_KEY.set /\ ~env.DD_API_KEY.set)
              => cfg.APIKey = FirstOfList(agentIni.keys.api_key.v)
        /\ (IniRead /\ agentIni.keys.api_key.v = <<"f","o","o",","," ","b","a","r"," ">> /\ ~YamlRead
               /\ ~env.API_KEY.set /\ ~env.DD_API_KEY.set)
              => cfg.APIKey = <<"f","o","o">>

\* the log level that the resolution keeps for the value v
AsLogLevel(v) == IF v = <<"w","a","r","n","i","n","g">> THEN <<"w","a","r","n">> ELSE v

\* C21: of the two names of a setting in the environment, the legacy name
\* (API_KEY, LOG_LEVEL, LOG_TO_CONSOLE) decides the resolved value only when
\* the preferred name (DD_API_KEY, DD_LOG_LEVEL, DD_LOGS_STDOUT) is absent
\* or empty; when both are set the value of the preferred name is resolved
C21_PreferredEnvName ==
    pc = "done" =>
        /\ Getenv(env, "DD_API_KEY") # <<>>
              => Trimmed(cfg.APIKey, FirstOfList(Getenv(env, "DD_API_KEY")))
        /\ (Getenv(env, "DD_API_KEY") = <<>> /\ Getenv(env, "API_KEY") # <<>>)
              => Trimmed(cfg.APIKey, FirstOfList(Getenv(env, "API_KEY")))
        /\ Getenv(env, "DD_LOG_LEVEL") # <<>>
              => cfg.LogLevel = AsLogLevel(Getenv(env, "DD_LOG_LEVEL"))
        /\ (Getenv(env, "DD_LOG_LEVEL") = <<>> /\ Getenv(env, "LOG_LEVEL") # <<>>)
              => cfg.LogLevel = AsLogLevel(Getenv(env, "LOG_LEVEL"))
        /\ Getenv(env, "DD_LOGS_STDOUT") # <<>>
              => cfg.LogToConsole = Affirmative(Getenv(env, "DD_LOGS_STDOUT"))
        /\ (Getenv(env, "DD_LOGS_STDOUT") = <<>> /\ Getenv(env, "LOG_TO_CONSOLE") # <<>>)
              => cfg.LogToConsole = Affirmative(Getenv(env, "LOG_TO_CONSOLE"))

(***************************************************************************)
(* Algebraic properties of the scrubber                                    *)
(***************************************************************************)
\* the scrubber ds with its i-th and j-th patterns exchanged
Exchanged(ds, i, j) ==
    [ds EXCEPT !.SensitivePatterns =
        [k \in DOMAIN @ |-> IF k = i THEN @[j] ELSE IF k = j THEN @[i] ELSE @[k]]]

\* C22: the result of ScrubCmdline does not depend on the order of the
\* patterns: with any two of them exchanged it returns the same tokens
C22_OrderIndependent ==
    pc = "scrubbed" =>
        \A i, j \in DOMAIN scrubber.SensitivePatterns :
            i < j => ScrubCmdline(Exchanged(scrubber, i, j), cmdline) = result

\* C23: scrubbing the result of a scrub with the same scrubber changes
\* nothing, for the default patterns and after custom words were added
C23_Idempotent ==
    pc = "scrubbed" => ScrubCmdline(scrubber, result) = result

\* the same words were added twice and a scrub with them masked a value
C23_Witness ==
    /\ pc = "scrubbed"
    /\ scrubber.Enabled
    /\ added = ExampleWords \o ExampleWords
    /\ scrubber.SensitivePatterns
         = AddCustomSensitiveWords(AddCustomSensitiveWords(NewDefaultDataScrubber, ExampleWords),
                                   ExampleWords).SensitivePatterns
    /\ cmdline = ExampleCmdline
    /\ result # cmdline
    /\ ScrubCmdline(scrubber, result) = result

(***************************************************************************)
(* The process blacklist                                                   *)
(***************************************************************************)
\* C24: the resolved Blacklist holds only compiled matchers, never the nil
\* matcher of a pattern that failed to compile, so that IsBlacklisted can
\* call each of them
C24_BlacklistCompiled ==
    pc = "done" => \A i \in DOMAIN cfg.Blacklist : ~cfg.Blacklist[i].nil

(***************************************************************************)
(* Shape of the scrubbed command line                                      *)
(***************************************************************************)
\* the token out is the token in, or the token in with one value (the run of
\* non-blank characters at its start or after one of its equals signs)
\* replaced by the mask
TokenKept(in, out) ==
    \/ out = in
    \/ \E k \in 0..Len(in) :
          /\ k > 0 => in[k] = "="
          /\ out = Slice(in, 1, k + 1) \o Mask
                     \o Slice(in, k + 1 + RunLength(in, k + 1, NonSpace), Len(in) + 1)

\* C25: for a command line whose tokens hold no space, ScrubCmdline returns
\* as many tokens as it was given, each one the given token at that position
\* or that token with a value masked
C25_TokensPreserved ==
    (pc = "scrubbed" /\ \A i \in DOMAIN cmdline : " " \notin Range(cmdline[i])) =>
        /\ Len(result) = Len(cmdline)
        /\ \A i \in DOMAIN cmdline : TokenKept(cmdline[i], result[i])

\* two tokens of a four-token command line were masked in place
C25_Witness ==
    /\ pc = "scrubbed"
    /\ scrubber.Enabled
    /\ cmdline = ExampleCmdline
    /\ \A i \in DOMAIN cmdline : " " \notin Range(cmdline[i])
    /\ Len(result) = 5
    /\ result[4] = Mask
    /\ result[5] # cmdline[5]
    /\ result[1] = cmdline[1]

====
